---- MODULE Spec2Model ----
(***************************************************************************)
(* Fleet management system: the alert engine (telematics/alert_engine.py), *)
(* its geofence containment test (telematics/gps_tracker.py), the callers  *)
(* that evaluate and store alerts (api/telemetry.py, services/tracking_    *)
(* service.py), and the telematics components beside it: the DTC analyzer, *)
(* the CAN decoder, the NMEA reader and parser, and the OBD-II PID table.  *)
(*                                                                         *)
(* Conventions.                                                            *)
(*  - An optional Python value is a sequence of length at most one:        *)
(*    None is <<>>, a present value v is <<v>>.                            *)
(*  - Time is in whole seconds since the engine was built; datetime.utcnow *)
(*    is the variable now.                                                 *)
(*  - Sensor values are integers chosen at and around the thresholds.      *)
(*    Battery voltage is in tenths of a volt (11.5 V is 115).              *)
(*  - The cooldown key f"{vehicle_id}_{alert_type.value}_{severity.value}" *)
(*    is the triple <<vehicle_id, alert_type, severity>>: the string is    *)
(*    built from an integer and two enum values joined by "_", and         *)
(*    distinct triples give distinct strings.                              *)
(*  - A message f-string is the tuple of its fixed text and the values it  *)
(*    interpolates.                                                        *)
(***************************************************************************)
EXTENDS Integers, Sequences, FiniteSets, TLC

VARIABLES
    now,              \* datetime.utcnow(), seconds
    thresholds,       \* AlertEngine.thresholds (settings.alerts)
    alert_cooldowns,  \* AlertEngine._alert_cooldowns: key -> last fired
    last,             \* the last completed call: operation, inputs, store before it, result
    emitted,          \* history: how many alerts were returned for each <<key, created_at>>
    ncalls,           \* calls made on the engine so far, where a run bounds them
    pc,               \* per request thread: position inside _create_alert
    tloc,             \* per request thread: locals (key, now read, alert returned)
    dtc_last,         \* DTCAnalyzer: the call in progress, its input and result
    decoder,          \* CANDecoder: signal_db, bus, is_connected, _use_simulator, _listeners
    can_last,         \* CANDecoder: the decode_frame call in progress, the decoder before and after it
    can_seen,         \* history: the first result of decode_frame for each watched input
    nmea,             \* GPSTracker._parse_nmea: sentences left, the fix so far, the sentence just read
    obd,              \* OBD_PIDS: the formula call in progress, its raw bytes and its outcome
    alerts_table      \* the alerts table of the database: the committed rows, as <<key, created_at>>

\* The alert engine, its clock and its callers.
engine_vars == <<now, thresholds, alert_cooldowns, last, emitted, ncalls, pc, tloc>>

\* The other telematics components; none shares state with the alert engine.
dtc_vars == <<dtc_last>>

can_vars == <<decoder, can_last, can_seen>>

nmea_vars == <<nmea>>

obd_vars == <<obd>>

db_vars == <<alerts_table>>

component_vars == <<dtc_vars, can_vars, nmea_vars, obd_vars, db_vars>>

vars == <<engine_vars, component_vars>>

\* ---------------------------------------------------------------- values

None == <<>>

Some(v) == <<v>>

Val(x) == x[1]

\* Python truthiness of an optional number: None and 0 are falsy.
Truthy(x) == x # <<>> /\ x[1] # 0

\* ---------------------------------------------------------------- settings

SPEED_LIMIT_WARNING == 120

SPEED_LIMIT_CRITICAL == 150

ENGINE_TEMP_WARNING == 100

ENGINE_TEMP_CRITICAL == 115

RPM_CRITICAL == 6500

HARSH_BRAKE_THRESHOLD == -8

HARSH_ACCEL_THRESHOLD == 5

FUEL_LOW_WARNING == 15

FUEL_LOW_CRITICAL == 5

\* 11.5 V, in tenths of a volt
BATTERY_LOW_VOLTAGE == 115

cooldown_seconds == 300

\* _check_dtcs looks at dtcs[:5]
DTC_LIMIT == 5

\* settings.alerts with every option at its default
AlertSettings ==
    [ SPEED_LIMIT_WARNING   |-> SPEED_LIMIT_WARNING,
      SPEED_LIMIT_CRITICAL  |-> SPEED_LIMIT_CRITICAL,
      ENGINE_TEMP_WARNING   |-> ENGINE_TEMP_WARNING,
      ENGINE_TEMP_CRITICAL  |-> ENGINE_TEMP_CRITICAL,
      RPM_CRITICAL          |-> RPM_CRITICAL,
      HARSH_BRAKE_THRESHOLD |-> HARSH_BRAKE_THRESHOLD,
      HARSH_ACCEL_THRESHOLD |-> HARSH_ACCEL_THRESHOLD,
      FUEL_LOW_WARNING      |-> FUEL_LOW_WARNING,
      FUEL_LOW_CRITICAL     |-> FUEL_LOW_CRITICAL ]

\* ---------------------------------------------------------------- enums

AlertType ==
    { "SPEEDING", "ENGINE_OVERHEAT", "LOW_FUEL", "LOW_BATTERY", "HARSH_BRAKING",
      "HARSH_ACCELERATION", "DTC_DETECTED", "GEOFENCE_VIOLATION" }

AlertSeverity == { "INFO", "WARNING", "CRITICAL" }

\* ---------------------------------------------------------------- _create_alert

\* The arguments of one _create_alert call.
Request(vehicle_id, alert_type, severity, message, details, lat, lon, trigger_value, threshold_value) ==
    [ vehicle_id |-> vehicle_id, alert_type |-> alert_type, severity |-> severity,
      message |-> message, details |-> details, latitude |-> lat, longitude |-> lon,
      trigger_value |-> trigger_value, threshold_value |-> threshold_value ]

\* Faulty variant: the key leaves the vehicle out.
cooldown_key_NoVehicle(req) == <<0, req.alert_type, req.severity>>

cooldown_key(req) == <<req.vehicle_id, req.alert_type, req.severity>>

\* Faulty variant: the window test is <= instead of <.
InCooldown_Inclusive(cd, key, t) ==
    key \in DOMAIN cd /\ t - cd[key] <= cooldown_seconds

\* Lines 280-283: the key is known and fired less than cooldown_seconds ago.
InCooldown(cd, key, t) ==
    key \in DOMAIN cd /\ t - cd[key] < cooldown_seconds

\* Faulty variant: the firing is not recorded.
StoreNow_Dropped(cd, key, t) == cd

\* Line 285: self._alert_cooldowns[cooldown_key] = now
StoreNow(cd, key, t) == (key :> t) @@ cd

\* Lines 287-298: the dict returned.
AlertDict(req, t) ==
    [ vehicle_id |-> req.vehicle_id, alert_type |-> req.alert_type,
      severity |-> req.severity, message |-> req.message, details |-> req.details,
      latitude |-> req.latitude, longitude |-> req.longitude,
      trigger_value |-> req.trigger_value, threshold_value |-> req.threshold_value,
      created_at |-> t ]

\* Faulty variant: a suppressed firing refreshes the key's timestamp.
create_alert_RefreshSuppressed(cd, t, req) ==
    IF InCooldown(cd, cooldown_key(req), t)
    THEN [cd |-> StoreNow(cd, cooldown_key(req), t), alert |-> None]
    ELSE [cd |-> StoreNow(cd, cooldown_key(req), t), alert |-> Some(AlertDict(req, t))]

\* The cooldown key of an alert returned.
KeyOfAlert(a) == <<a.vehicle_id, a.alert_type, a.severity>>

\* _create_alert as one step at time t on store cd: the store after it and
\* the value returned (None, or the alert).
create_alert(cd, t, req) ==
    IF InCooldown(cd, cooldown_key(req), t)
    THEN [cd |-> cd, alert |-> None]
    ELSE [cd |-> StoreNow(cd, cooldown_key(req), t), alert |-> Some(AlertDict(req, t))]

\* "alert = self._create_alert(...); if alert: alerts.append(alert)" for the
\* calls reqs in order: the store after them and the alerts list.
RECURSIVE CreateAll(_, _, _)
CreateAll(cd, t, reqs) ==
    IF reqs = <<>>
    THEN [cd |-> cd, alerts |-> <<>>]
    ELSE LET r    == create_alert(cd, t, Head(reqs))
             rest == CreateAll(r.cd, t, Tail(reqs))
         IN  [cd |-> rest.cd, alerts |-> r.alert \o rest.alerts]

\* ---------------------------------------------------------------- checks
\* Each check is the sequence of _create_alert calls it makes, in order. Which
\* calls a check makes depends on the reading and the thresholds only; what
\* each call returns depends on the store (CreateAll).

\* Faulty variant: the warning branch is an "if", not an "elif".
check_speed_BothTiers(th, vehicle_id, speed, telemetry) ==
    (IF speed >= th.SPEED_LIMIT_CRITICAL
     THEN << Request(vehicle_id, "SPEEDING", "CRITICAL",
                     <<"CRITICAL SPEEDING", speed, th.SPEED_LIMIT_CRITICAL>>, None,
                     telemetry.latitude, telemetry.longitude,
                     Some(speed), Some(th.SPEED_LIMIT_CRITICAL)) >>
     ELSE <<>>)
    \o
    (IF speed >= th.SPEED_LIMIT_WARNING
     THEN << Request(vehicle_id, "SPEEDING", "WARNING",
                     <<"Speed warning", speed, th.SPEED_LIMIT_WARNING>>, None,
                     telemetry.latitude, telemetry.longitude,
                     Some(speed), Some(th.SPEED_LIMIT_WARNING)) >>
     ELSE <<>>)

check_speed(th, vehicle_id, speed, telemetry) ==
    IF speed >= th.SPEED_LIMIT_CRITICAL
    THEN << Request(vehicle_id, "SPEEDING", "CRITICAL",
                    <<"CRITICAL SPEEDING", speed, th.SPEED_LIMIT_CRITICAL>>, None,
                    telemetry.latitude, telemetry.longitude,
                    Some(speed), Some(th.SPEED_LIMIT_CRITICAL)) >>
    ELSE IF speed >= th.SPEED_LIMIT_WARNING
    THEN << Request(vehicle_id, "SPEEDING", "WARNING",
                    <<"Speed warning", speed, th.SPEED_LIMIT_WARNING>>, None,
                    telemetry.latitude, telemetry.longitude,
                    Some(speed), Some(th.SPEED_LIMIT_WARNING)) >>
    ELSE <<>>

check_engine_temp(th, vehicle_id, temp, telemetry) ==
    IF temp >= th.ENGINE_TEMP_CRITICAL
    THEN << Request(vehicle_id, "ENGINE_OVERHEAT", "CRITICAL",
                    <<"ENGINE OVERHEAT", temp, th.ENGINE_TEMP_CRITICAL>>, None,
                    telemetry.latitude, telemetry.longitude,
                    Some(temp), Some(th.ENGINE_TEMP_CRITICAL)) >>
    ELSE IF temp >= th.ENGINE_TEMP_WARNING
    THEN << Request(vehicle_id, "ENGINE_OVERHEAT", "WARNING",
                    <<"Engine temp high", temp, th.ENGINE_TEMP_WARNING>>, None,
                    None, None,
                    Some(temp), Some(th.ENGINE_TEMP_WARNING)) >>
    ELSE <<>>

\* The over-rev alert is created with AlertType.ENGINE_OVERHEAT (line 178).
check_rpm(th, vehicle_id, rpm, telemetry) ==
    IF rpm >= th.RPM_CRITICAL
    THEN << Request(vehicle_id, "ENGINE_OVERHEAT", "CRITICAL",
                    <<"Engine over-revving", rpm, th.RPM_CRITICAL>>, None,
                    None, None,
                    Some(rpm), Some(th.RPM_CRITICAL)) >>
    ELSE <<>>

\* Faulty variant: a critical fuel level asks for both tiers, so the warning
\* can fire when the critical key is suppressed.
check_fuel_BothTiers(th, vehicle_id, fuel, telemetry) ==
    (IF fuel <= th.FUEL_LOW_CRITICAL
     THEN << Request(vehicle_id, "LOW_FUEL", "CRITICAL",
                     <<"FUEL CRITICAL", fuel>>, None,
                     telemetry.latitude, telemetry.longitude,
                     Some(fuel), Some(th.FUEL_LOW_CRITICAL)) >>
     ELSE <<>>)
    \o (IF fuel <= th.FUEL_LOW_WARNING
        THEN << Request(vehicle_id, "LOW_FUEL", "WARNING",
                        <<"Low fuel warning", fuel>>, None,
                        None, None,
                        Some(fuel), Some(th.FUEL_LOW_WARNING)) >>
        ELSE <<>>)

check_fuel(th, vehicle_id, fuel, telemetry) ==
    IF fuel <= th.FUEL_LOW_CRITICAL
    THEN << Request(vehicle_id, "LOW_FUEL", "CRITICAL",
                    <<"FUEL CRITICAL", fuel>>, None,
                    telemetry.latitude, telemetry.longitude,
                    Some(fuel), Some(th.FUEL_LOW_CRITICAL)) >>
    ELSE IF fuel <= th.FUEL_LOW_WARNING
    THEN << Request(vehicle_id, "LOW_FUEL", "WARNING",
                    <<"Low fuel warning", fuel>>, None,
                    None, None,
                    Some(fuel), Some(th.FUEL_LOW_WARNING)) >>
    ELSE <<>>

\* Faulty variant: 11.5 V itself counts as low.
check_battery_Inclusive(th, vehicle_id, voltage, telemetry) ==
    IF voltage <= BATTERY_LOW_VOLTAGE
    THEN << Request(vehicle_id, "LOW_BATTERY", "WARNING",
                    <<"Low battery voltage", voltage>>, None,
                    None, None,
                    Some(voltage), Some(BATTERY_LOW_VOLTAGE)) >>
    ELSE <<>>

check_battery(th, vehicle_id, voltage, telemetry) ==
    IF voltage < BATTERY_LOW_VOLTAGE
    THEN << Request(vehicle_id, "LOW_BATTERY", "WARNING",
                    <<"Low battery voltage", voltage>>, None,
                    None, None,
                    Some(voltage), Some(BATTERY_LOW_VOLTAGE)) >>
    ELSE <<>>

\* accel_y = telemetry.get("acceleration_y", 0); the caller has tested it
\* is not None.
check_driver_behavior(th, vehicle_id, telemetry) ==
    LET accel_y == Val(telemetry.acceleration_y) IN
    (IF accel_y <= th.HARSH_BRAKE_THRESHOLD
     THEN << Request(vehicle_id, "HARSH_BRAKING", "WARNING",
                     <<"Harsh braking detected", accel_y>>, None,
                     telemetry.latitude, telemetry.longitude,
                     Some(accel_y), Some(th.HARSH_BRAKE_THRESHOLD)) >>
     ELSE <<>>)
    \o
    (IF accel_y >= th.HARSH_ACCEL_THRESHOLD
     THEN << Request(vehicle_id, "HARSH_ACCELERATION", "WARNING",
                     <<"Harsh acceleration detected", accel_y>>, None,
                     telemetry.latitude, telemetry.longitude,
                     Some(accel_y), Some(th.HARSH_ACCEL_THRESHOLD)) >>
     ELSE <<>>)

\* for dtc in dtcs[:5]: one call per code, all with the key
\* (vehicle_id, DTC_DETECTED, WARNING).
check_dtcs(th, vehicle_id, dtcs, telemetry) ==
    [ i \in 1..(IF Len(dtcs) < DTC_LIMIT THEN Len(dtcs) ELSE DTC_LIMIT) |->
        Request(vehicle_id, "DTC_DETECTED", "WARNING",
                <<"DTC Detected", dtcs[i]>>, Some(dtcs[i]),
                None, None, None, None) ]

\* speed = telemetry.get("vehicle_speed") or telemetry.get("gps_speed") or 0
speed_of(telemetry) ==
    IF Truthy(telemetry.vehicle_speed) THEN Val(telemetry.vehicle_speed)
    ELSE IF Truthy(telemetry.gps_speed) THEN Val(telemetry.gps_speed)
    ELSE 0

\* Lines 51-83 of evaluate: what each block of evaluate passes to
\* alerts.extend, block by block.
category_calls(th, vehicle_id, telemetry) ==
    [ speed    |-> check_speed(th, vehicle_id, speed_of(telemetry), telemetry),
      temp     |-> IF telemetry.coolant_temp # None
                   THEN check_engine_temp(th, vehicle_id, Val(telemetry.coolant_temp), telemetry)
                   ELSE <<>>,
      rpm      |-> IF telemetry.engine_rpm # None
                   THEN check_rpm(th, vehicle_id, Val(telemetry.engine_rpm), telemetry)
                   ELSE <<>>,
      fuel     |-> IF telemetry.fuel_level # None
                   THEN check_fuel(th, vehicle_id, Val(telemetry.fuel_level), telemetry)
                   ELSE <<>>,
      battery  |-> IF telemetry.battery_voltage # None
                   THEN check_battery(th, vehicle_id, Val(telemetry.battery_voltage), telemetry)
                   ELSE <<>>,
      behavior |-> IF telemetry.acceleration_y # None
                   THEN check_driver_behavior(th, vehicle_id, telemetry)
                   ELSE <<>>,
      dtc      |-> IF telemetry.dtc_codes # None /\ Val(telemetry.dtc_codes) # <<>>
                   THEN check_dtcs(th, vehicle_id, Val(telemetry.dtc_codes), telemetry)
                   ELSE <<>> ]

\* Faulty variant: the fuel block runs first.
evaluate_order_FuelFirst ==
    <<"fuel", "speed", "temp", "rpm", "battery", "behavior", "dtc">>

\* The order of the blocks in evaluate.
evaluate_order ==
    <<"speed", "temp", "rpm", "fuel", "battery", "behavior", "dtc">>

\* The calls of the blocks named by order, concatenated.
RECURSIVE calls_in_order(_, _)
calls_in_order(blocks, order) ==
    IF order = <<>> THEN <<>>
    ELSE blocks[Head(order)] \o calls_in_order(blocks, Tail(order))

\* The _create_alert calls of one evaluate, in order.
evaluate_calls(th, vehicle_id, telemetry) ==
    calls_in_order(category_calls(th, vehicle_id, telemetry), evaluate_order)

\* AlertEngine.evaluate at time t on store cd: the store after it and the
\* list returned.
evaluate(th, cd, t, vehicle_id, telemetry) ==
    CreateAll(cd, t, evaluate_calls(th, vehicle_id, telemetry))

\* ---------------------------------------------------------------- geofence

Abs(x) == IF x < 0 THEN -x ELSE x

\* Positions of the model lie on one meridian and a latitude is given as the
\* arc length from the equator in metres; there dlambda = 0, a = sin(dphi/2)^2,
\* c = |dphi| and R * c is the difference of the two arc lengths.
haversine_distance(lat1, lon1, lat2, lon2) == Abs(lat2 - lat1)

\* Faulty variant: the boundary is outside the fence.
is_inside_geofence_Strict(lat, lon, fence_lat, fence_lon, radius_m) ==
    haversine_distance(lat, lon, fence_lat, fence_lon) < radius_m

is_inside_geofence(lat, lon, fence_lat, fence_lon, radius_m) ==
    haversine_distance(lat, lon, fence_lat, fence_lon) <= radius_m

\* The body of the loop of check_geofence for one fence.
fence_calls(vehicle_id, lat, lon, fence) ==
    LET inside == is_inside_geofence(lat, lon, fence.center_latitude,
                                     fence.center_longitude, fence.radius_meters)
    IN  (IF ~inside /\ fence.alert_on_exit
         THEN << Request(vehicle_id, "GEOFENCE_VIOLATION", "WARNING",
                         <<"Vehicle exited geofence", fence.name>>, None,
                         Some(lat), Some(lon), Some(0), Some(fence.radius_meters)) >>
         ELSE <<>>)
        \o
        (IF inside /\ fence.alert_on_entry
         THEN << Request(vehicle_id, "GEOFENCE_VIOLATION", "INFO",
                         <<"Vehicle entered geofence", fence.name>>, None,
                         Some(lat), Some(lon), None, None) >>
         ELSE <<>>)

RECURSIVE check_geofence_calls(_, _, _, _)
check_geofence_calls(vehicle_id, lat, lon, geofences) ==
    IF geofences = <<>> THEN <<>>
    ELSE fence_calls(vehicle_id, lat, lon, Head(geofences))
         \o check_geofence_calls(vehicle_id, lat, lon, Tail(geofences))

\* AlertEngine.check_geofence at time t on store cd.
check_geofence(cd, t, vehicle_id, lat, lon, geofences) ==
    CreateAll(cd, t, check_geofence_calls(vehicle_id, lat, lon, geofences))

\* ---------------------------------------------------------------- bounds and inputs

\* calls on one engine in a run of Spec
MaxCalls == 2

\* the clock stops here
MaxTime == 600

\* longest DTC list of a reading
MaxDtcs == 6

Vehicles == {1, 2}

Threads == {1, 2}

\* The clock advances by just under, or exactly, one cooldown window.
TickSteps == {cooldown_seconds - 1, cooldown_seconds}

NoTelemetry ==
    [ vehicle_speed |-> None, gps_speed |-> None, coolant_temp |-> None,
      engine_rpm |-> None, fuel_level |-> None, battery_voltage |-> None,
      acceleration_y |-> None, dtc_codes |-> None,
      latitude |-> None, longitude |-> None ]

\* The values of each field: below, at and above its thresholds.
FieldSamples ==
    [ vehicle_speed   |-> {0, SPEED_LIMIT_WARNING - 1, SPEED_LIMIT_WARNING,
                           SPEED_LIMIT_CRITICAL - 1, SPEED_LIMIT_CRITICAL,
                           SPEED_LIMIT_CRITICAL + 10},
      gps_speed       |-> {SPEED_LIMIT_CRITICAL},
      coolant_temp    |-> {ENGINE_TEMP_WARNING - 1, ENGINE_TEMP_WARNING,
                           ENGINE_TEMP_CRITICAL - 1, ENGINE_TEMP_CRITICAL},
      engine_rpm      |-> {RPM_CRITICAL - 1, RPM_CRITICAL},
      fuel_level      |-> {FUEL_LOW_CRITICAL, FUEL_LOW_CRITICAL + 1,
                           FUEL_LOW_WARNING, FUEL_LOW_WARNING + 1},
      battery_voltage |-> {BATTERY_LOW_VOLTAGE - 1, BATTERY_LOW_VOLTAGE},
      acceleration_y  |-> {HARSH_BRAKE_THRESHOLD, 0, HARSH_ACCEL_THRESHOLD},
      dtc_codes       |-> {<<>>, <<1>>, [i \in 1..MaxDtcs |-> i]} ]

\* The value of each field that meets its most severe condition.
WorstSample ==
    [ vehicle_speed   |-> SPEED_LIMIT_CRITICAL + 10,
      gps_speed       |-> SPEED_LIMIT_CRITICAL,
      coolant_temp    |-> ENGINE_TEMP_CRITICAL,
      engine_rpm      |-> RPM_CRITICAL,
      fuel_level      |-> FUEL_LOW_CRITICAL,
      battery_voltage |-> BATTERY_LOW_VOLTAGE - 1,
      acceleration_y  |-> HARSH_BRAKE_THRESHOLD,
      dtc_codes       |-> [i \in 1..MaxDtcs |-> i] ]

SensorFields == DOMAIN FieldSamples

\* A GPS fix on the meridian of the model.
WithFix(tel) == [tel EXCEPT !.latitude = Some(100), !.longitude = Some(0)]

\* Readings with one field present, at each of its sample values.
OneFieldReadings ==
    UNION { { [NoTelemetry EXCEPT ![f] = Some(x)] : x \in FieldSamples[f] } :
            f \in SensorFields }

\* Readings with two fields present, both at their worst, with a GPS fix.
TwoFieldReadings ==
    { WithFix([NoTelemetry EXCEPT ![f] = Some(WorstSample[f]),
                                  ![g] = Some(WorstSample[g])]) :
      f \in SensorFields, g \in SensorFields }

\* Every field present, at its worst.
FullReading ==
    WithFix([f \in DOMAIN NoTelemetry |->
               IF f \in SensorFields THEN Some(WorstSample[f]) ELSE None])

Readings ==
    {NoTelemetry, FullReading,
     [FullReading EXCEPT !.coolant_temp = Some(ENGINE_TEMP_WARNING)],
     [NoTelemetry EXCEPT !.vehicle_speed = Some(0),
                         !.gps_speed = Some(SPEED_LIMIT_CRITICAL)]}
    \cup OneFieldReadings \cup TwoFieldReadings

\* Readings of the clocked specification: speed only.
SpeedReadings ==
    { [NoTelemetry EXCEPT !.vehicle_speed = Some(x)] :
      x \in {0, SPEED_LIMIT_WARNING, SPEED_LIMIT_CRITICAL} }

Fence(name, center, radius, on_entry, on_exit) ==
    [ name |-> name, center_latitude |-> center, center_longitude |-> 0,
      radius_meters |-> radius, alert_on_entry |-> on_entry, alert_on_exit |-> on_exit ]

FenceDepot == Fence("depot", 0, 100, FALSE, TRUE)

FenceYard == Fence("yard", 0, 100, TRUE, FALSE)

FenceCity == Fence("city", 300, 100, TRUE, TRUE)

FenceSilent == Fence("silent", 0, 100, FALSE, FALSE)

FenceLists ==
    { <<>>, <<FenceDepot>>, <<FenceYard>>, <<FenceCity>>, <<FenceSilent>>,
      <<FenceDepot, FenceCity>>, <<FenceYard, FenceCity>>, <<FenceDepot, FenceYard>>,
      <<FenceYard, FenceYard>> }

\* On the boundary of the depot and yard fences, one metre outside, and
\* inside the city fence.
Positions == {100, 101, 250}

\* ---------------------------------------------------------------- strings
\* A Python str is the sequence of its characters; "" is <<>>.

LowerLetters ==
    << "a","b","c","d","e","f","g","h","i","j","k","l","m",
       "n","o","p","q","r","s","t","u","v","w","x","y","z" >>

UpperLetters ==
    << "A","B","C","D","E","F","G","H","I","J","K","L","M",
       "N","O","P","Q","R","S","T","U","V","W","X","Y","Z" >>

\* The characters str.strip() removes.
Whitespace == { " ", "\t", "\n", "\r" }

\* str.upper()
upper(s) ==
    [ i \in DOMAIN s |->
        IF \E j \in DOMAIN LowerLetters : LowerLetters[j] = s[i]
        THEN UpperLetters[CHOOSE j \in DOMAIN LowerLetters : LowerLetters[j] = s[i]]
        ELSE s[i] ]

RECURSIVE lstrip(_)
lstrip(s) ==
    IF s # <<>> /\ Head(s) \in Whitespace THEN lstrip(Tail(s)) ELSE s

RECURSIVE rstrip(_)
rstrip(s) ==
    IF s # <<>> /\ s[Len(s)] \in Whitespace THEN rstrip(SubSeq(s, 1, Len(s) - 1)) ELSE s

\* str.strip()
strip(s) == rstrip(lstrip(s))

\* ---------------------------------------------------------------- DTC analyzer
\* telematics/dtc_analyzer.py. A report's affected_systems is
\* sorted(set): the set itself here. The action texts are kept without
\* their leading pictograph.

DTC_DATABASE ==
    <<"P","0","1","0","0">> :> [desc |-> "Mass Air Flow (MAF) Circuit Malfunction", severity |-> "high", system |-> "fuel"] @@
    <<"P","0","1","0","1">> :> [desc |-> "MAF Sensor Range/Performance", severity |-> "medium", system |-> "fuel"] @@
    <<"P","0","1","0","2">> :> [desc |-> "MAF Sensor Circuit Low Input", severity |-> "medium", system |-> "fuel"] @@
    <<"P","0","1","1","0">> :> [desc |-> "Intake Air Temperature Sensor Malfunction", severity |-> "medium", system |-> "fuel"] @@
    <<"P","0","1","2","0">> :> [desc |-> "Throttle Position Sensor Malfunction", severity |-> "high", system |-> "fuel"] @@
    <<"P","0","1","3","0">> :> [desc |-> "O2 Sensor Circuit Malfunction (Bank 1)", severity |-> "medium", system |-> "emissions"] @@
    <<"P","0","1","7","1">> :> [desc |-> "System Too Lean (Bank 1)", severity |-> "medium", system |-> "fuel"] @@
    <<"P","0","1","7","2">> :> [desc |-> "System Too Rich (Bank 1)", severity |-> "medium", system |-> "fuel"] @@
    <<"P","0","3","0","0">> :> [desc |-> "Random/Multiple Cylinder Misfire Detected", severity |-> "high", system |-> "ignition"] @@
    <<"P","0","3","0","1">> :> [desc |-> "Cylinder 1 Misfire Detected", severity |-> "high", system |-> "ignition"] @@
    <<"P","0","3","0","2">> :> [desc |-> "Cylinder 2 Misfire Detected", severity |-> "high", system |-> "ignition"] @@
    <<"P","0","3","0","3">> :> [desc |-> "Cylinder 3 Misfire Detected", severity |-> "high", system |-> "ignition"] @@
    <<"P","0","3","0","4">> :> [desc |-> "Cylinder 4 Misfire Detected", severity |-> "high", system |-> "ignition"] @@
    <<"P","0","3","3","5">> :> [desc |-> "Crankshaft Position Sensor Malfunction", severity |-> "critical", system |-> "ignition"] @@
    <<"P","0","3","4","0">> :> [desc |-> "Camshaft Position Sensor Malfunction", severity |-> "critical", system |-> "ignition"] @@
    <<"P","0","4","0","0">> :> [desc |-> "EGR Flow Malfunction", severity |-> "medium", system |-> "emissions"] @@
    <<"P","0","4","2","0">> :> [desc |-> "Catalyst Efficiency Below Threshold (Bank 1)", severity |-> "medium", system |-> "emissions"] @@
    <<"P","0","4","4","0">> :> [desc |-> "EVAP System Malfunction", severity |-> "low", system |-> "emissions"] @@
    <<"P","0","4","4","2">> :> [desc |-> "EVAP System Small Leak Detected", severity |-> "low", system |-> "emissions"] @@
    <<"P","0","4","5","5">> :> [desc |-> "EVAP System Large Leak Detected", severity |-> "medium", system |-> "emissions"] @@
    <<"P","0","5","0","0">> :> [desc |-> "Vehicle Speed Sensor Malfunction", severity |-> "high", system |-> "drivetrain"] @@
    <<"P","0","5","0","5">> :> [desc |-> "Idle Air Control System Malfunction", severity |-> "medium", system |-> "fuel"] @@
    <<"P","0","7","0","0">> :> [desc |-> "Transmission Control System Malfunction", severity |-> "high", system |-> "transmission"] @@
    <<"P","0","7","1","5">> :> [desc |-> "Input/Turbine Speed Sensor Malfunction", severity |-> "high", system |-> "transmission"] @@
    <<"P","0","7","3","0">> :> [desc |-> "Incorrect Gear Ratio", severity |-> "high", system |-> "transmission"] @@
    <<"P","0","1","1","5">> :> [desc |-> "Engine Coolant Temperature Sensor Malfunction", severity |-> "high", system |-> "cooling"] @@
    <<"P","0","1","1","6">> :> [desc |-> "Coolant Temp Sensor Range/Performance", severity |-> "medium", system |-> "cooling"] @@
    <<"P","0","1","1","7">> :> [desc |-> "Coolant Temp Sensor Circuit Low", severity |-> "medium", system |-> "cooling"] @@
    <<"P","0","1","2","5">> :> [desc |-> "Insufficient Coolant Temperature for Fuel Control", severity |-> "medium", system |-> "cooling"] @@
    <<"P","0","1","2","8">> :> [desc |-> "Coolant Thermostat Below Operating Temperature", severity |-> "low", system |-> "cooling"] @@
    <<"C","0","0","3","5">> :> [desc |-> "Left Front Wheel Speed Sensor Circuit", severity |-> "high", system |-> "abs"] @@
    <<"C","0","0","4","0">> :> [desc |-> "Right Front Wheel Speed Sensor Circuit", severity |-> "high", system |-> "abs"] @@
    <<"C","0","0","5","0">> :> [desc |-> "Steering Assist Control Module", severity |-> "critical", system |-> "steering"] @@
    <<"B","0","0","0","1">> :> [desc |-> "Driver Frontal Stage 1 Deployment Control", severity |-> "critical", system |-> "airbag"] @@
    <<"B","0","0","2","8">> :> [desc |-> "Airbag Warning Lamp Circuit", severity |-> "high", system |-> "airbag"] @@
    <<"B","0","1","0","0">> :> [desc |-> "Electronic Frontal Sensor 1", severity |-> "critical", system |-> "airbag"] @@
    <<"U","0","0","0","1">> :> [desc |-> "High Speed CAN Communication Bus", severity |-> "high", system |-> "network"] @@
    <<"U","0","1","0","0">> :> [desc |-> "Lost Communication with ECM/PCM", severity |-> "critical", system |-> "network"] @@
    <<"U","0","1","2","1">> :> [desc |-> "Lost Communication with ABS", severity |-> "critical", system |-> "network"] @@
    <<"U","0","1","4","0">> :> [desc |-> "Lost Communication with BCM", severity |-> "high", system |-> "network"]

SEVERITY_PRIORITY ==
    [ critical |-> 4, high |-> 3, medium |-> 2, low |-> 1 ]

RECOMMENDED_ACTIONS ==
    [ critical |-> "STOP VEHICLE IMMEDIATELY. Do not drive. Tow to nearest service center.",
      high     |-> "Schedule service ASAP. Avoid long trips until repaired.",
      medium   |-> "Service recommended within 1-2 weeks. Monitor closely.",
      low      |-> "Minor issue. Schedule during next routine service." ]

\* DTCAnalyzer.__init__ with no custom_db.
dtc_db == DTC_DATABASE

\* dict.get(key, default)
Get(d, key, default) == IF key \in DOMAIN d THEN d[key] ELSE default

system_map ==
    <<"P">> :> "powertrain" @@ <<"C">> :> "chassis" @@
    <<"B">> :> "body" @@ <<"U">> :> "network"

subsystem_map ==
    <<"0">> :> "fuel_and_air" @@ <<"1">> :> "fuel_and_air" @@ <<"2">> :> "fuel_and_air" @@
    <<"3">> :> "ignition" @@ <<"4">> :> "emissions" @@ <<"5">> :> "speed_idle" @@
    <<"6">> :> "computer" @@ <<"7">> :> "transmission" @@ <<"8">> :> "transmission"

\* DTCAnalyzer._decode_unknown, a faulty variant without the third-character map.
decode_unknown_FirstCharOnly(code) ==
    LET system == IF Len(code) > 0 THEN Get(system_map, <<code[1]>>, "unknown") ELSE "unknown"
    IN  [ description |-> <<"Unknown ", system, " code (manufacturer-specific)">>,
          system |-> system ]

\* DTCAnalyzer._decode_unknown
decode_unknown(code) ==
    LET system == IF Len(code) > 0 THEN Get(system_map, <<code[1]>>, "unknown") ELSE "unknown"
        subsystem == IF Len(code) >= 3 /\ code[1] = "P"
                     THEN Get(subsystem_map, <<code[3]>>, "")
                     ELSE ""
    IN  [ description |-> <<"Unknown ", system, " code (manufacturer-specific)">>,
          system |-> IF subsystem # "" THEN subsystem ELSE system ]

Max(x, y) == IF x > y THEN x ELSE y

\* One turn of the loop of analyze (lines 134-159) on the accumulated
\* analyzed list, max_severity_level and affected_systems.
analyze_code(acc, raw_code) ==
    LET code == strip(upper(raw_code)) IN
    IF code \in DOMAIN dtc_db
    THEN LET info == dtc_db[code]
             severity == info.severity
         IN  [ analyzed |-> Append(acc.analyzed,
                                   [ code |-> code, description |-> <<info.desc>>,
                                     severity |-> severity, system |-> info.system,
                                     action |-> RECOMMENDED_ACTIONS[severity] ]),
               max_severity_level |-> Max(acc.max_severity_level, SEVERITY_PRIORITY[severity]),
               affected_systems |-> acc.affected_systems \cup {info.system} ]
    ELSE LET decoded == decode_unknown(code)
         IN  [ analyzed |-> Append(acc.analyzed,
                                   [ code |-> code, description |-> decoded.description,
                                     severity |-> "medium", system |-> decoded.system,
                                     action |-> RECOMMENDED_ACTIONS["medium"] ]),
               max_severity_level |-> acc.max_severity_level,
               affected_systems |-> acc.affected_systems \cup {decoded.system} ]

RECURSIVE analyze_loop(_, _)
analyze_loop(acc, dtc_codes) ==
    IF dtc_codes = <<>> THEN acc
    ELSE analyze_loop(analyze_code(acc, Head(dtc_codes)), Tail(dtc_codes))

\* severity_names.get(level, "low") of line 163
severity_name(level) ==
    IF \E s \in DOMAIN SEVERITY_PRIORITY : SEVERITY_PRIORITY[s] = level
    THEN CHOOSE s \in DOMAIN SEVERITY_PRIORITY : SEVERITY_PRIORITY[s] = level
    ELSE "low"

\* Line 164, a faulty variant that lets a critical level through.
safe_to_drive_Inclusive(level) == level <= SEVERITY_PRIORITY["critical"]

\* Line 164
safe_to_drive(level) == level < SEVERITY_PRIORITY["critical"]

\* DTCAnalyzer.analyze
analyze(dtc_codes) ==
    IF dtc_codes = <<>>
    THEN [ total_codes |-> 0,
           max_severity |-> "none",
           overall_action |-> "No faults detected. Vehicle systems normal.",
           safe_to_drive |-> TRUE,
           codes |-> <<>>,
           affected_systems |-> {} ]
    ELSE LET acc == analyze_loop([ analyzed |-> <<>>, max_severity_level |-> 0,
                                   affected_systems |-> {} ], dtc_codes)
             max_severity == severity_name(acc.max_severity_level)
         IN  [ total_codes |-> Len(dtc_codes),
               max_severity |-> max_severity,
               overall_action |-> Get(RECOMMENDED_ACTIONS, max_severity, "Monitor vehicle."),
               safe_to_drive |-> safe_to_drive(acc.max_severity_level),
               codes |-> acc.analyzed,
               affected_systems |-> acc.affected_systems ]

\* The branch of lines 202-229 for one analyzed entry: zero or one suggestion.
suggestion_for(code_info) ==
    LET system == code_info.system
        Item(type, priority, text, cost) ==
            << [ type |-> type, priority |-> priority,
                 description |-> <<text, code_info.description>>,
                 estimated_cost |-> cost ] >>
    IN  IF system \in {"ignition", "fuel"}
        THEN Item("engine_diagnostic", code_info.severity, "Engine diagnostic needed: ", "$100-300")
        ELSE IF system = "transmission"
        THEN Item("transmission_service", code_info.severity, "Transmission inspection: ", "$150-500")
        ELSE IF system = "emissions"
        THEN Item("emissions_service", code_info.severity, "Emissions system service: ", "$100-400")
        ELSE IF system \in {"abs", "steering"}
        THEN Item("safety_inspection", "critical", "Safety-critical repair: ", "$200-800")
        ELSE <<>>

RECURSIVE suggestions_loop(_)
suggestions_loop(codes) ==
    IF codes = <<>> THEN <<>>
    ELSE suggestion_for(Head(codes)) \o suggestions_loop(Tail(codes))

\* DTCAnalyzer.get_maintenance_suggestions
get_maintenance_suggestions(dtc_codes) == suggestions_loop(analyze(dtc_codes).codes)

\* ---------------------------------------------------------------- CAN decoder
\* telematics/can_decoder.py. A bytes object is the sequence of its bytes
\* (0..255). A Python int built from it is the sequence of its bits, least
\* significant first, so that frames wider than a machine word keep every
\* bit. A factor is in thousandths and a physical value in thousandths of
\* its unit, which is what round(..., 3) keeps; the unit of a temperature
\* is written "degC".

STANDARD_CAN_SIGNALS ==
    192 :> [ name |-> "Engine_Data_1", signals |-> <<
          [ signal_name |-> "engine_rpm", start_bit |-> 0, length |-> 16, factor |-> 250, offset |-> 0, unit |-> "rpm" ],
          [ signal_name |-> "engine_torque", start_bit |-> 16, length |-> 16, factor |-> 100, offset |-> -500, unit |-> "Nm" ] >> ] @@
    193 :> [ name |-> "Engine_Data_2", signals |-> <<
          [ signal_name |-> "coolant_temp", start_bit |-> 0, length |-> 8, factor |-> 1000, offset |-> -40, unit |-> "degC" ],
          [ signal_name |-> "oil_pressure", start_bit |-> 8, length |-> 8, factor |-> 4000, offset |-> 0, unit |-> "kPa" ],
          [ signal_name |-> "oil_temp", start_bit |-> 16, length |-> 8, factor |-> 1000, offset |-> -40, unit |-> "degC" ] >> ] @@
    208 :> [ name |-> "Vehicle_Speed", signals |-> <<
          [ signal_name |-> "vehicle_speed", start_bit |-> 0, length |-> 16, factor |-> 10, offset |-> 0, unit |-> "km/h" ],
          [ signal_name |-> "wheel_speed_fl", start_bit |-> 16, length |-> 16, factor |-> 10, offset |-> 0, unit |-> "km/h" ],
          [ signal_name |-> "wheel_speed_fr", start_bit |-> 32, length |-> 16, factor |-> 10, offset |-> 0, unit |-> "km/h" ] >> ] @@
    209 :> [ name |-> "Brake_Data", signals |-> <<
          [ signal_name |-> "brake_pressure", start_bit |-> 0, length |-> 16, factor |-> 100, offset |-> 0, unit |-> "bar" ],
          [ signal_name |-> "brake_pedal", start_bit |-> 16, length |-> 8, factor |-> 400, offset |-> 0, unit |-> "%" ],
          [ signal_name |-> "abs_active", start_bit |-> 24, length |-> 1, factor |-> 1000, offset |-> 0, unit |-> "bool" ] >> ] @@
    224 :> [ name |-> "Transmission_Data", signals |-> <<
          [ signal_name |-> "gear_position", start_bit |-> 0, length |-> 4, factor |-> 1000, offset |-> 0, unit |-> "" ],
          [ signal_name |-> "trans_temp", start_bit |-> 8, length |-> 8, factor |-> 1000, offset |-> -40, unit |-> "degC" ] >> ] @@
    944 :> [ name |-> "Fuel_Data", signals |-> <<
          [ signal_name |-> "fuel_level", start_bit |-> 0, length |-> 8, factor |-> 500, offset |-> 0, unit |-> "%" ],
          [ signal_name |-> "fuel_rate", start_bit |-> 8, length |-> 16, factor |-> 50, offset |-> 0, unit |-> "L/h" ] >> ] @@
    960 :> [ name |-> "Battery_Data", signals |-> <<
          [ signal_name |-> "battery_voltage", start_bit |-> 0, length |-> 16, factor |-> 1, offset |-> 0, unit |-> "V" ],
          [ signal_name |-> "alternator_load", start_bit |-> 16, length |-> 8, factor |-> 1000, offset |-> 0, unit |-> "%" ] >> ]

\* The bits of one byte, least significant first.
ByteBits(b) == [ k \in 1..8 |-> (b \div (2 ^ (k - 1))) % 2 ]

\* int.from_bytes(data, byteorder="big"): a faulty variant of the byte order.
RECURSIVE from_bytes_BigEndian(_)
from_bytes_BigEndian(data) ==
    IF data = <<>> THEN <<>>
    ELSE from_bytes_BigEndian(Tail(data)) \o ByteBits(Head(data))

\* int.from_bytes(data, byteorder="little")
RECURSIVE from_bytes(_)
from_bytes(data) ==
    IF data = <<>> THEN <<>>
    ELSE ByteBits(Head(data)) \o from_bytes(Tail(data))

\* value >> n
shift_right(bits, n) == SubSeq(bits, n + 1, Len(bits))

\* value & ((1 << length) - 1)
and_mask(bits, length) == SubSeq(bits, 1, IF length < Len(bits) THEN length ELSE Len(bits))

\* The integer a sequence of bits stands for.
RECURSIVE to_int(_)
to_int(bits) ==
    IF bits = <<>> THEN 0 ELSE Head(bits) + 2 * to_int(Tail(bits))

\* CANDecoder._extract_signal: it raises for no bytes object, whatever its length.
extract_signal(data, start_bit, length) ==
    to_int(and_mask(shift_right(from_bytes(data), start_bit), length))

\* The entry decode_frame stores for one signal (lines 144-154).
signal_entry(data, signal_def) ==
    LET raw_value == extract_signal(data, signal_def.start_bit, signal_def.length)
        physical_value == raw_value * signal_def.factor + 1000 * signal_def.offset
    IN  [ value |-> physical_value, unit |-> signal_def.unit, raw |-> raw_value ]

\* The loop of lines 142-156 over the signals of a frame definition.
RECURSIVE decode_signals(_, _, _)
decode_signals(result, data, signals) ==
    IF signals = <<>> THEN result
    ELSE decode_signals((Head(signals).signal_name :> signal_entry(data, Head(signals))) @@ result,
                        data, Tail(signals))

\* {}
EmptyDict == [ k \in {} |-> 0 ]

\* CANDecoder.decode_frame, a faulty variant that answers nothing once the
\* decoder has fallen back to its simulator.
decode_frame_SimulatorAware(self, arbitration_id, data) ==
    IF arbitration_id \in DOMAIN self.signal_db /\ ~self.use_simulator
    THEN LET frame_def == self.signal_db[arbitration_id]
         IN  decode_signals(("_frame_name" :> [ name |-> frame_def.name ]) @@ EmptyDict,
                            data, frame_def.signals)
    ELSE EmptyDict

\* CANDecoder.decode_frame: the dict it returns. The value under
\* "_frame_name" is the frame's name.
decode_frame(self, arbitration_id, data) ==
    IF arbitration_id \in DOMAIN self.signal_db
    THEN LET frame_def == self.signal_db[arbitration_id]
         IN  decode_signals(("_frame_name" :> [ name |-> frame_def.name ]) @@ EmptyDict,
                            data, frame_def.signals)
    ELSE EmptyDict

\* CANDecoder.__init__ with no signal_db.
NewDecoder ==
    [ signal_db |-> STANDARD_CAN_SIGNALS, bus |-> None, is_connected |-> FALSE,
      use_simulator |-> FALSE, listeners |-> <<>> ]

\* ---------------------------------------------------------------- NMEA: text and numbers
\* telematics/gps_tracker.py. A sentence is the sequence of its characters.
\* A float is kept as a whole number of its smallest reported unit:
\* latitude and longitude in millionths of a degree (round(decimal, 6)),
\* speed in tenths of a km/h (round(..., 1)), altitude and heading in
\* thousandths. Rounding is to the nearest unit.

\* The first 0-based index of character c in s, or -1: str.index / str.find.
RECURSIVE find(_, _)
find(s, c) ==
    IF s = <<>> THEN -1
    ELSE IF Head(s) = c THEN 0
    ELSE LET rest == find(Tail(s), c) IN IF rest = -1 THEN -1 ELSE rest + 1

\* sub in s
contains(s, sub) ==
    \E i \in 1..(Len(s) - Len(sub) + 1) : SubSeq(s, i, i + Len(sub) - 1) = sub

\* str.split(",")
RECURSIVE split(_)
split(s) ==
    LET i == find(s, ",") IN
    IF i = -1 THEN << s >>
    ELSE << SubSeq(s, 1, i) >> \o split(SubSeq(s, i + 2, Len(s)))

\* A slice bound as Python reads it: negative counts from the end, and the
\* result is clamped to 0 .. len(s).
slice_bound(s, k) ==
    LET j == IF k < 0 THEN Len(s) + k ELSE k IN
    IF j < 0 THEN 0 ELSE IF j > Len(s) THEN Len(s) ELSE j

\* s[:k]
slice_to(s, k) == SubSeq(s, 1, slice_bound(s, k))

\* s[k:]
slice_from(s, k) == SubSeq(s, slice_bound(s, k) + 1, Len(s))

Digits == << "0", "1", "2", "3", "4", "5", "6", "7", "8", "9" >>

IsDigit(c) == \E d \in DOMAIN Digits : Digits[d] = c

DigitValue(c) == (CHOOSE d \in DOMAIN Digits : Digits[d] = c) - 1

AllDigits(s) == \A i \in DOMAIN s : IsDigit(s[i])

\* The number a string of digits stands for; 0 for the empty string.
RECURSIVE digits_value(_)
digits_value(s) ==
    IF s = <<>> THEN 0
    ELSE 10 * digits_value(SubSeq(s, 1, Len(s) - 1)) + DigitValue(s[Len(s)])

\* A string without its sign, and the sign.
Unsigned(s) == IF s # <<>> /\ Head(s) \in {"-", "+"} THEN Tail(s) ELSE s

SignOf(s) == IF s # <<>> /\ Head(s) = "-" THEN -1 ELSE 1

\* float(s) for plain decimal text: None where float raises ValueError, else
\* the number as mantissa and count of decimals. Text is a sign, digits, and
\* at most one point, with a digit somewhere; surrounding blanks are
\* dropped as float does. Exponents, "inf" and "nan" are not among the inputs.
parse_float(text) ==
    LET s == Unsigned(strip(text))
        dot == find(s, ".")
        whole == IF dot = -1 THEN s ELSE SubSeq(s, 1, dot)
        frac == IF dot = -1 THEN <<>> ELSE SubSeq(s, dot + 2, Len(s))
    IN  IF AllDigits(whole) /\ AllDigits(frac) /\ Len(whole) + Len(frac) > 0
        THEN Some([ mantissa |-> SignOf(strip(text)) * digits_value(whole \o frac),
                    decimals |-> Len(frac) ])
        ELSE None

\* int(s): None where int raises ValueError.
parse_int(text) ==
    LET s == Unsigned(strip(text)) IN
    IF s # <<>> /\ AllDigits(s) THEN Some(SignOf(strip(text)) * digits_value(s)) ELSE None

\* n / d rounded to the nearest whole number.
Round(n, d) == IF n >= 0 THEN (2 * n + d) \div (2 * d) ELSE -((2 * (-n) + d) \div (2 * d))

\* A parsed float in units of 10^-places.
scaled(x, places) ==
    IF x.decimals <= places
    THEN x.mantissa * (10 ^ (places - x.decimals))
    ELSE Round(x.mantissa, 10 ^ (x.decimals - places))

\* GPSTracker._nmea_to_decimal: None, or millionths of a degree.
nmea_to_decimal(value, direction) ==
    IF value = <<>> \/ direction = <<>> THEN None
    ELSE IF contains(value, <<".">>)
    THEN LET dot_index == find(value, ".")
             degrees == parse_float(slice_to(value, dot_index - 2))
             minutes == parse_float(slice_from(value, dot_index - 2))
         IN  IF degrees = None \/ minutes = None THEN None
             ELSE LET decimal == scaled(Val(degrees), 6) + Round(scaled(Val(minutes), 6), 60)
                  IN  Some(IF direction \in { <<"S">>, <<"W">> } THEN -decimal ELSE decimal)
    ELSE None

\* ---------------------------------------------------------------- NMEA: the parse

\* parts[i], with Python's 0-based index.
Part(parts, i) == parts[i + 1]

\* The value of `float(p) if p else default`: raised where float raises.
float_or(p, default, places) ==
    IF p = <<>> THEN [ raised |-> FALSE, v |-> default ]
    ELSE LET f == parse_float(p)
         IN  IF f = None THEN [ raised |-> TRUE, v |-> None ]
             ELSE [ raised |-> FALSE, v |-> Some(scaled(Val(f), places)) ]

\* The value of `int(p) if p else None`.
int_or_none(p) ==
    IF p = <<>> THEN [ raised |-> FALSE, v |-> None ]
    ELSE LET n == parse_int(p)
         IN  IF n = None THEN [ raised |-> TRUE, v |-> None ]
             ELSE [ raised |-> FALSE, v |-> n ]

\* The dict of lines 95-99; the timestamp is the clock's reading.
NewFix(t) ==
    [ latitude |-> None, longitude |-> None, altitude |-> None,
      speed |-> None, heading |-> None, satellites |-> None, timestamp |-> t ]

\* The GGA branch, lines 106-109: the assignments made before a ValueError
\* stay made.
parse_gga(data, parts) ==
    LET d2 == [ data EXCEPT !.latitude = nmea_to_decimal(Part(parts, 2), Part(parts, 3)),
                            !.longitude = nmea_to_decimal(Part(parts, 4), Part(parts, 5)) ]
        altitude == float_or(Part(parts, 9), None, 3)
        satellites == int_or_none(Part(parts, 7))
    IN  IF altitude.raised
        THEN [ data |-> d2, assigned |-> {"latitude", "longitude"} ]
        ELSE IF satellites.raised
        THEN [ data |-> [ d2 EXCEPT !.altitude = altitude.v ],
               assigned |-> {"latitude", "longitude", "altitude"} ]
        ELSE [ data |-> [ d2 EXCEPT !.altitude = altitude.v, !.satellites = satellites.v ],
               assigned |-> {"latitude", "longitude", "altitude", "satellites"} ]

\* The RMC branch, lines 112-117: the position only where latitude is None;
\* parts[8] raises IndexError in a sentence of eight fields.
parse_rmc(data, parts) ==
    LET fill == data.latitude = None
        d1 == IF fill
              THEN [ data EXCEPT !.latitude = nmea_to_decimal(Part(parts, 3), Part(parts, 4)),
                                 !.longitude = nmea_to_decimal(Part(parts, 5), Part(parts, 6)) ]
              ELSE data
        a1 == IF fill THEN {"latitude", "longitude"} ELSE {}
        speed_knots == float_or(Part(parts, 7), Some(0), 3)
        heading == IF Len(parts) < 9 THEN [ raised |-> TRUE, v |-> None ]
                   ELSE float_or(Part(parts, 8), None, 3)
    IN  IF speed_knots.raised
        THEN [ data |-> d1, assigned |-> a1 ]
        ELSE LET d2 == [ d1 EXCEPT !.speed = Some(Round(Val(speed_knots.v) * 1852, 100000)) ]
             IN  IF heading.raised
                 THEN [ data |-> d2, assigned |-> a1 \cup {"speed"} ]
                 ELSE [ data |-> [ d2 EXCEPT !.heading = heading.v ],
                        assigned |-> a1 \cup {"speed", "heading"} ]

\* One turn of the loop of lines 101-120: the fix after the sentence and the
\* fields it assigned.
parse_sentence(data, sentence) ==
    LET parts == split(sentence) IN
    IF contains(Part(parts, 0), <<"G", "G", "A">>) /\ Len(parts) >= 10
    THEN parse_gga(data, parts)
    ELSE IF contains(Part(parts, 0), <<"R", "M", "C">>) /\ Len(parts) >= 8
    THEN parse_rmc(data, parts)
    ELSE [ data |-> data, assigned |-> {} ]

\* ---------------------------------------------------------------- OBD-II PIDs
\* telematics/obd_reader.py, OBD_PIDS.  A formula is a Python lambda over the
\* raw bytes A, B; its result is kept exact as the fraction num/den of the
\* division it makes (the float the lambda returns is the double nearest to
\* that quotient).

Ratio(n, d) == [num |-> n, den |-> d]

\* The table of lines 17-30: the request code, the declared width, and the
\* number of parameters of the lambda.
OBD_PIDS ==
    [ ENGINE_RPM        |-> [pid |-> "010C", bytes |-> 2, params |-> 2],
      VEHICLE_SPEED     |-> [pid |-> "010D", bytes |-> 1, params |-> 1],
      COOLANT_TEMP      |-> [pid |-> "0105", bytes |-> 1, params |-> 1],
      ENGINE_LOAD       |-> [pid |-> "0104", bytes |-> 1, params |-> 1],
      THROTTLE_POSITION |-> [pid |-> "0111", bytes |-> 1, params |-> 1],
      INTAKE_AIR_TEMP   |-> [pid |-> "010F", bytes |-> 1, params |-> 1],
      MAF_RATE          |-> [pid |-> "0110", bytes |-> 2, params |-> 2],
      FUEL_LEVEL        |-> [pid |-> "012F", bytes |-> 1, params |-> 1],
      FUEL_PRESSURE     |-> [pid |-> "010A", bytes |-> 1, params |-> 1],
      BATTERY_VOLTAGE   |-> [pid |-> "0142", bytes |-> 2, params |-> 2],
      OIL_TEMP          |-> [pid |-> "015C", bytes |-> 1, params |-> 1],
      INTAKE_PRESSURE   |-> [pid |-> "010B", bytes |-> 1, params |-> 1] ]

PidNames == DOMAIN OBD_PIDS

word_LowByteFirst(a, b) == a + (b * 256)

\* (a * 256) + b of lines 18, 24 and 27
word(a, b) == (a * 256) + b

\* The body of each lambda, on the arguments it was called with.
formula(name, args) ==
    CASE name = "ENGINE_RPM"        -> Ratio(word(args[1], args[2]), 4)
      [] name = "VEHICLE_SPEED"     -> Ratio(args[1], 1)
      [] name = "COOLANT_TEMP"      -> Ratio(args[1] - 40, 1)
      [] name = "ENGINE_LOAD"       -> Ratio(args[1] * 100, 255)
      [] name = "THROTTLE_POSITION" -> Ratio(args[1] * 100, 255)
      [] name = "INTAKE_AIR_TEMP"   -> Ratio(args[1] - 40, 1)
      [] name = "MAF_RATE"          -> Ratio(word(args[1], args[2]), 100)
      [] name = "FUEL_LEVEL"        -> Ratio(args[1] * 100, 255)
      [] name = "FUEL_PRESSURE"     -> Ratio(args[1] * 3, 1)
      [] name = "BATTERY_VOLTAGE"   -> Ratio(word(args[1], args[2]), 1000)
      [] name = "OIL_TEMP"          -> Ratio(args[1] - 40, 1)
      [] name = "INTAKE_PRESSURE"   -> Ratio(args[1], 1)

\* A call that binds the leading bytes and takes a missing one as 0.
call_formula_Lenient(name, data) ==
    [ raised |-> <<>>, value |-> Some(formula(name, data \o <<0, 0>>)) ]

\* OBD_PIDS[name]["formula"](*data): Python binds one byte to each parameter
\* and raises TypeError when their numbers differ.
call_formula(name, data) ==
    IF Len(data) = OBD_PIDS[name].params
    THEN [ raised |-> <<>>, value |-> Some(formula(name, data)) ]
    ELSE [ raised |-> <<"TypeError">>, value |-> None ]

\* ---------------------------------------------------------------- state machine

EmptyStore == [k \in {} |-> 0]

IdleLocals == [calls |-> <<>>, vehicle_id |-> 0, t |-> 0, alerts |-> <<>>]

\* No DTCAnalyzer call in progress.
DtcIdle == [op |-> "init", input |-> <<>>, result |-> <<>>]

\* No decode_frame call in progress.
CanIdle ==
    [op |-> "init", arbitration_id |-> 0, data |-> <<>>, result |-> EmptyDict,
     before |-> <<>>, after |-> <<>>]

\* No _parse_nmea call in progress.
NmeaIdle ==
    [pc |-> "idle", sentences |-> <<>>, data |-> <<>>, before |-> <<>>, sentence |-> <<>>,
     index |-> 0, origin |-> [latitude |-> 0, longitude |-> 0]]

\* No formula call in progress.
ObdIdle == [name |-> "", data |-> <<>>, result |-> <<>>]

\* The components before any call.
InitComponents ==
    /\ dtc_last = DtcIdle
    /\ decoder = NewDecoder
    /\ can_last = CanIdle
    /\ can_seen = EmptyDict
    /\ nmea = NmeaIdle
    /\ obd = ObdIdle
    /\ alerts_table = {}

\* AlertEngine.__init__ with settings.alerts = th, before any call.
InitWith(th) ==
    /\ now = 0
    /\ thresholds = th
    /\ alert_cooldowns = EmptyStore
    /\ last = [op |-> "init", vehicle_id |-> 0, input |-> <<>>, t |-> 0,
               before |-> EmptyStore, alerts |-> <<>>]
    /\ emitted = EmptyStore
    /\ ncalls = 0
    /\ pc = [x \in Threads |-> "idle"]
    /\ tloc = [x \in Threads |-> IdleLocals]
    /\ InitComponents

Init == InitWith(AlertSettings)

\* settings.alerts as the environment can set it: the defaults,
\* ALERT_SPEED_LIMIT_WARNING=0 (every movement is reported), and
\* ALERT_SPEED_LIMIT_WARNING=150 with ALERT_SPEED_LIMIT_CRITICAL=120 (the
\* pair inverted). AlertSettings declares each field with a type and no
\* validator, and AlertEngine.__init__ stores the object as it is.
ThresholdConfigs ==
    { AlertSettings,
      [AlertSettings EXCEPT !.SPEED_LIMIT_WARNING = 0],
      [AlertSettings EXCEPT !.SPEED_LIMIT_WARNING = 150, !.SPEED_LIMIT_CRITICAL = 120] }

InitConfig == \E th \in ThresholdConfigs : InitWith(th)

\* The history with the alerts of one returned list added.
RECURSIVE Emit(_, _)
Emit(bag, alerts) ==
    IF alerts = <<>> THEN bag
    ELSE LET a == Head(alerts)
             e == << <<a.vehicle_id, a.alert_type, a.severity>>, a.created_at >>
         IN  Emit(IF e \in DOMAIN bag THEN [bag EXCEPT ![e] = @ + 1] ELSE (e :> 1) @@ bag,
                  Tail(alerts))

\* A completed call: the store after it, and the record of the call.
Completed(op, vehicle_id, input, r) ==
    /\ alert_cooldowns' = r.cd
    /\ last' = [op |-> op, vehicle_id |-> vehicle_id, input |-> input, t |-> now,
                before |-> alert_cooldowns, alerts |-> r.alerts]
    /\ emitted' = Emit(emitted, r.alerts)
    /\ UNCHANGED <<now, thresholds, pc, tloc, component_vars>>

\* alert_engine.evaluate(vehicle_id, telemetry), by the single thread of a
\* VehicleTracker (tracking_service.py line 195).
Evaluate(vehicle_id, telemetry) ==
    Completed("evaluate", vehicle_id, telemetry,
              evaluate(thresholds, alert_cooldowns, now, vehicle_id, telemetry))

\* alert_engine.check_geofence(vehicle_id, lat, lon, geofences)
CheckGeofence(vehicle_id, lat, geofences) ==
    Completed("check_geofence", vehicle_id, [lat |-> lat, lon |-> 0, geofences |-> geofences],
              check_geofence(alert_cooldowns, now, vehicle_id, lat, 0, geofences))

\* One firing attempt: _create_alert called for a key.
CreateAlert(req) ==
    LET r == create_alert(alert_cooldowns, now, req)
    IN  Completed("create_alert", req.vehicle_id, req, [cd |-> r.cd, alerts |-> r.alert])

\* Time passes.
Tick(d) ==
    /\ now + d <= MaxTime
    /\ now' = now + d
    /\ UNCHANGED <<thresholds, alert_cooldowns, last, emitted, ncalls, pc, tloc, component_vars>>

\* ---------------------------------------------------------------- request threads
\* api/telemetry.py: ingest_telemetry is a synchronous endpoint, run on the
\* server's thread pool, and every request calls evaluate on the one
\* module-level alert_engine (line 19, line 116). _create_alert holds no lock;
\* a thread can be descheduled between the test of lines 280-283 and the
\* assignment of line 285.

\* The request enters evaluate: the calls it will make are fixed by the reading.
ThreadBegin(th, vehicle_id, telemetry) ==
    /\ pc[th] = "idle"
    /\ pc' = [pc EXCEPT ![th] = "check"]
    /\ tloc' = [tloc EXCEPT ![th] = [calls |-> evaluate_calls(thresholds, vehicle_id, telemetry),
                                     vehicle_id |-> vehicle_id, t |-> 0, alerts |-> <<>>]]
    /\ UNCHANGED <<now, thresholds, alert_cooldowns, last, emitted, ncalls, component_vars>>

\* Lines 276-283 of the next _create_alert call: read the clock, test the window.
ThreadCheck(th) ==
    /\ pc[th] = "check"
    /\ tloc[th].calls # <<>>
    /\ IF InCooldown(alert_cooldowns, cooldown_key(Head(tloc[th].calls)), now)
       THEN /\ tloc' = [tloc EXCEPT ![th].calls = Tail(@)]
            /\ pc' = pc
       ELSE /\ tloc' = [tloc EXCEPT ![th].t = now]
            /\ pc' = [pc EXCEPT ![th] = "store"]
    /\ UNCHANGED <<now, thresholds, alert_cooldowns, last, emitted, ncalls, component_vars>>

\* Lines 285-298: write the timestamp read at the check, return the alert.
ThreadStore(th) ==
    /\ pc[th] = "store"
    /\ LET req == Head(tloc[th].calls) IN
       /\ alert_cooldowns' = StoreNow(alert_cooldowns, cooldown_key(req), tloc[th].t)
       /\ tloc' = [tloc EXCEPT ![th].calls = Tail(@),
                               ![th].alerts = Append(@, AlertDict(req, tloc[th].t))]
    /\ pc' = [pc EXCEPT ![th] = "check"]
    /\ UNCHANGED <<now, thresholds, last, emitted, ncalls, component_vars>>

\* evaluate returns its list to ingest_telemetry.
ThreadReturn(th) ==
    /\ pc[th] = "check"
    /\ tloc[th].calls = <<>>
    /\ pc' = [pc EXCEPT ![th] = "idle"]
    /\ emitted' = Emit(emitted, tloc[th].alerts)
    /\ UNCHANGED <<now, thresholds, alert_cooldowns, last, ncalls, tloc, component_vars>>

\* ---------------------------------------------------------------- specifications

\* One engine, one caller, a bounded number of calls at one instant.
Next ==
    \/ \E telemetry \in Readings :
          ncalls < MaxCalls /\ Evaluate(1, telemetry) /\ ncalls' = ncalls + 1
    \/ \E lat \in Positions, geofences \in FenceLists :
          ncalls < MaxCalls /\ CheckGeofence(1, lat, geofences) /\ ncalls' = ncalls + 1

Spec == Init /\ [][Next]_vars

\* One engine, one caller, any number of speed readings and firing attempts
\* for two vehicles while the clock advances.
NextCooldown ==
    \/ \E d \in TickSteps : Tick(d)
    \/ \E vehicle_id \in Vehicles, telemetry \in SpeedReadings :
          Evaluate(vehicle_id, telemetry) /\ UNCHANGED ncalls
    \/ \E vehicle_id \in Vehicles, severity \in {"WARNING", "CRITICAL"} :
          /\ CreateAlert(Request(vehicle_id, "SPEEDING", severity, <<"attempt">>, None,
                                 None, None, None, None))
          /\ UNCHANGED ncalls

SpecCooldown == Init /\ [][NextCooldown]_vars

\* The shared engine of the API: request threads interleave inside
\* _create_alert while the clock advances.
NextThreads ==
    \/ \E d \in TickSteps : Tick(d)
    \/ \E th \in Threads, telemetry \in SpeedReadings : ThreadBegin(th, 1, telemetry)
    \/ \E th \in Threads : ThreadCheck(th)
    \/ \E th \in Threads : ThreadStore(th)
    \/ \E th \in Threads : ThreadReturn(th)

SpecThreads == Init /\ [][NextThreads]_vars

\* As Spec, with the thresholds taken from the environment.
SpecConfig == InitConfig /\ [][Next]_vars

\* ---------------------------------------------------------------- tiers on the clock

MaxClockedCalls == 3

\* One tiered field present, at its warning and at its critical threshold;
\* and a critical coolant temperature together with a critical rpm.
TierReadings ==
    { [NoTelemetry EXCEPT !.vehicle_speed = Some(SPEED_LIMIT_WARNING)],
      [NoTelemetry EXCEPT !.vehicle_speed = Some(SPEED_LIMIT_CRITICAL)],
      [NoTelemetry EXCEPT !.coolant_temp = Some(ENGINE_TEMP_WARNING)],
      [NoTelemetry EXCEPT !.coolant_temp = Some(ENGINE_TEMP_CRITICAL)],
      [NoTelemetry EXCEPT !.fuel_level = Some(FUEL_LOW_WARNING)],
      [NoTelemetry EXCEPT !.fuel_level = Some(FUEL_LOW_CRITICAL)],
      [NoTelemetry EXCEPT !.coolant_temp = Some(ENGINE_TEMP_CRITICAL),
                          !.engine_rpm = Some(RPM_CRITICAL)] }

\* One engine, one caller, a bounded number of readings of one vehicle while
\* the clock advances.
NextTiers ==
    \/ \E d \in TickSteps : Tick(d)
    \/ \E telemetry \in TierReadings :
          ncalls < MaxClockedCalls /\ Evaluate(1, telemetry) /\ ncalls' = ncalls + 1

SpecTiers == Init /\ [][NextTiers]_vars

\* ---------------------------------------------------------------- two vehicles on the clock

FleetReadings ==
    { [NoTelemetry EXCEPT !.vehicle_speed = Some(SPEED_LIMIT_WARNING)],
      [NoTelemetry EXCEPT !.vehicle_speed = Some(SPEED_LIMIT_CRITICAL)],
      [NoTelemetry EXCEPT !.fuel_level = Some(FUEL_LOW_CRITICAL)] }

FleetFenceLists == { <<FenceDepot>>, <<FenceDepot, FenceCity>> }

FleetPositions == {101, 250}

\* One engine shared by the readings and geofence checks of two vehicles, a
\* bounded number of calls while the clock advances.
NextFleet ==
    \/ \E d \in TickSteps : Tick(d)
    \/ \E vehicle_id \in Vehicles, telemetry \in FleetReadings :
          ncalls < MaxClockedCalls /\ Evaluate(vehicle_id, telemetry) /\ ncalls' = ncalls + 1
    \/ \E vehicle_id \in Vehicles, lat \in FleetPositions, geofences \in FleetFenceLists :
          /\ ncalls < MaxClockedCalls
          /\ CheckGeofence(vehicle_id, lat, geofences)
          /\ ncalls' = ncalls + 1

SpecFleet == Init /\ [][NextFleet]_vars

\* ---------------------------------------------------------------- persistence
\* The two callers that store what evaluate returns. A VehicleTracker owns
\* an engine (tracking_service.py line 56) and the API owns another
\* (api/telemetry.py line 19); the tracker is that of vehicle 1 and the
\* requests are those of vehicle 2, so the entries of the two engines are
\* the entries of alert_cooldowns with vehicle 1 and with vehicle 2.

\* The rows db.add(alert) puts in the session for the alerts returned.
RECURSIVE alert_rows(_)
alert_rows(alerts) ==
    IF alerts = <<>> THEN {}
    ELSE {<<KeyOfAlert(Head(alerts)), Head(alerts).created_at>>} \cup alert_rows(Tail(alerts))

\* db.commit(): the rows of the session are written, or the commit raises
\* and the session is rolled back (tracking_service.py lines 212-215) or
\* closed without a commit (get_db, models/database.py lines 24-27).
commit(table, rows, commit_ok) == IF commit_ok THEN table \cup rows ELSE table

\* Evaluate, add the alerts to the session, commit.
StoreAlerts(op, vehicle_id, telemetry, commit_ok) ==
    LET r == evaluate(thresholds, alert_cooldowns, now, vehicle_id, telemetry) IN
    /\ alert_cooldowns' = r.cd
    /\ last' = [op |-> op, vehicle_id |-> vehicle_id, input |-> telemetry, t |-> now,
                before |-> alert_cooldowns, alerts |-> r.alerts]
    /\ emitted' = Emit(emitted, r.alerts)
    /\ alerts_table' = commit(alerts_table, alert_rows(r.alerts), commit_ok)
    /\ UNCHANGED <<now, thresholds, pc, tloc, dtc_vars, can_vars, nmea_vars, obd_vars>>

\* VehicleTracker._store_telemetry(telemetry), lines 146-217, of the tracker
\* of vehicle 1.
StoreTelemetry(telemetry, commit_ok) ==
    StoreAlerts("_store_telemetry", 1, telemetry, commit_ok)

\* ingest_telemetry(data, db), lines 78-140, for vehicle 2: HTTP 404 before
\* anything is evaluated when the vehicle is not in the database.
IngestTelemetry(telemetry, vehicle_found, commit_ok) ==
    IF vehicle_found
    THEN StoreAlerts("ingest_telemetry", 2, telemetry, commit_ok)
    ELSE /\ last' = [op |-> "ingest_telemetry_404", vehicle_id |-> 2, input |-> telemetry,
                     t |-> now, before |-> alert_cooldowns, alerts |-> <<>>]
         /\ UNCHANGED <<now, thresholds, alert_cooldowns, emitted, pc, tloc, component_vars>>

NextStore ==
    \/ \E d \in TickSteps : Tick(d)
    \/ \E telemetry \in FleetReadings, commit_ok \in BOOLEAN :
          ncalls < MaxClockedCalls /\ StoreTelemetry(telemetry, commit_ok)
          /\ ncalls' = ncalls + 1
    \/ \E telemetry \in FleetReadings, vehicle_found \in BOOLEAN, commit_ok \in BOOLEAN :
          /\ ncalls < MaxClockedCalls
          /\ IngestTelemetry(telemetry, vehicle_found, commit_ok)
          /\ ncalls' = ncalls + 1

SpecStore == Init /\ [][NextStore]_vars

\* ---------------------------------------------------------------- the tracking loop
\* services/tracking_service.py, _tracking_loop (lines 86-95): while the
\* tracker runs, collect a reading, store it (evaluate, line 195), sleep for
\* the poll interval, or for 5 seconds after an error.  The loop position is
\* pc[1]: "idle" before the reading, "sleep" after it.

\* settings.telematics.TELEMETRY_INTERVAL, in whole seconds
poll_interval == 2

\* time.sleep(5) of line 95
error_backoff == 5

SleepSteps == {poll_interval, error_backoff}

\* Readings of a vehicle that stays above the critical speed limit.
SpeedingReadings ==
    { [NoTelemetry EXCEPT !.vehicle_speed = Some(x)] :
      x \in {SPEED_LIMIT_CRITICAL, SPEED_LIMIT_CRITICAL + 10} }

\* Lines 89-91: one reading of the tracked vehicle is evaluated.
Poll(telemetry) ==
    /\ pc[1] = "idle"
    /\ alert_cooldowns' = evaluate(thresholds, alert_cooldowns, now, 1, telemetry).cd
    /\ last' = [op |-> "evaluate", vehicle_id |-> 1, input |-> telemetry, t |-> now,
                before |-> alert_cooldowns,
                alerts |-> evaluate(thresholds, alert_cooldowns, now, 1, telemetry).alerts]
    /\ emitted' = Emit(emitted, last'.alerts)
    /\ pc' = [pc EXCEPT ![1] = "sleep"]
    /\ UNCHANGED <<now, thresholds, ncalls, tloc, component_vars>>

\* Lines 92 and 95: the loop sleeps and the clock advances.
Sleep(d) ==
    /\ pc[1] = "sleep"
    /\ now + d <= MaxTime
    /\ now' = now + d
    /\ pc' = [pc EXCEPT ![1] = "idle"]
    /\ UNCHANGED <<thresholds, alert_cooldowns, last, emitted, ncalls, tloc, component_vars>>

PollStep == \E telemetry \in SpeedingReadings : Poll(telemetry)

SleepStep == \E d \in SleepSteps : Sleep(d)

NextPolling == PollStep \/ SleepStep

\* The loop keeps running: a reading that is due is taken, a sleep ends.
SpecPolling ==
    Init /\ [][NextPolling]_vars /\ WF_vars(PollStep) /\ WF_vars(SleepStep)

\* ---------------------------------------------------------------- properties

\* The key of a returned alert.
KeyOf(a) == <<a.vehicle_id, a.alert_type, a.severity>>

\* In store cd, at time t, key fired less than one cooldown window ago.
FiredWithin(cd, key, t) ==
    \E k \in DOMAIN cd : k = key /\ cd[k] + cooldown_seconds > t

\* C1. A firing attempt on a key that last fired less than cooldown_seconds
\* ago returns no alert and leaves the store as it was; an attempt on a key
\* that never fired, or fired at least cooldown_seconds ago, returns exactly
\* one alert, created now, and sets the key's timestamp to now (every other
\* key keeps its timestamp).
C1_FiringAttempt ==
    last.op = "create_alert" =>
        LET key == <<last.input.vehicle_id, last.input.alert_type, last.input.severity>>
        IN  IF FiredWithin(last.before, key, last.t)
            THEN /\ last.alerts = <<>>
                 /\ alert_cooldowns = last.before
            ELSE /\ Len(last.alerts) = 1
                 /\ KeyOf(last.alerts[1]) = key
                 /\ last.alerts[1].created_at = last.t
                 /\ DOMAIN alert_cooldowns = DOMAIN last.before \cup {key}
                 /\ alert_cooldowns[key] = last.t
                 /\ \A k \in DOMAIN last.before : k # key => alert_cooldowns[k] = last.before[k]

\* A suppressed attempt: the key fired earlier, inside the window.
C1_Witness_Suppressed ==
    /\ last.op = "create_alert"
    /\ LET key == <<last.input.vehicle_id, last.input.alert_type, last.input.severity>>
       IN  /\ key \in DOMAIN last.before
           /\ last.t - last.before[key] = cooldown_seconds - 1
    /\ last.alerts = <<>>

\* C2. With the clock never going back, any two alerts ever returned for the
\* same key were created at least cooldown_seconds apart (and no two at the
\* same instant).
C2_SameKeyAlertsApart ==
    \A e \in DOMAIN emitted :
        /\ emitted[e] = 1
        /\ \A f \in DOMAIN emitted :
              (f # e /\ f[1] = e[1]) =>
                  (e[2] - f[2] >= cooldown_seconds \/ f[2] - e[2] >= cooldown_seconds)

\* A key that fired at 0 and again one window later, and whose condition is
\* then met inside the second window by an evaluate that returns nothing.
C2_Witness_SuppressedInWindow ==
    /\ last.op = "evaluate"
    /\ last.input.vehicle_speed = Some(SPEED_LIMIT_CRITICAL)
    /\ last.alerts = <<>>
    /\ last.t = 2 * cooldown_seconds - 1
    /\ LET key == <<last.vehicle_id, "SPEEDING", "CRITICAL">>
       IN  {<<key, 0>>, <<key, cooldown_seconds>>} \subseteq DOMAIN emitted

\* The category of a returned alert, read off the fixed text of its message.
Category(a) ==
    CASE a.message[1] \in {"CRITICAL SPEEDING", "Speed warning"} -> "speed"
      [] a.message[1] \in {"ENGINE OVERHEAT", "Engine temp high"} -> "temp"
      [] a.message[1] = "Engine over-revving" -> "rpm"
      [] a.message[1] \in {"FUEL CRITICAL", "Low fuel warning"} -> "fuel"
      [] a.message[1] = "Low battery voltage" -> "battery"
      [] a.message[1] \in {"Harsh braking detected", "Harsh acceleration detected"} -> "behavior"
      [] a.message[1] = "DTC Detected" -> "dtc"
      [] a.message[1] \in {"Vehicle exited geofence", "Vehicle entered geofence"} -> "geofence"

\* The alerts of the last call that belong to category c and have severity s.
Returned(c, s) ==
    { i \in DOMAIN last.alerts : Category(last.alerts[i]) = c /\ last.alerts[i].severity = s }

\* The value of a field of the last reading, present or not.
Has(f) == last.input[f] # None

\* The speed the speeding check is made on, as the claims describe it.
LastSpeed ==
    IF Has("vehicle_speed") /\ Val(last.input.vehicle_speed) # 0
    THEN Val(last.input.vehicle_speed)
    ELSE IF Has("gps_speed") /\ Val(last.input.gps_speed) # 0
    THEN Val(last.input.gps_speed)
    ELSE 0

\* C3. Tier exclusivity. One evaluate never returns a warning and a critical
\* alert of the same tiered category (speed, engine temperature, fuel); a
\* reading that meets the critical threshold yields no warning alert of the
\* category, and exactly one critical alert when the critical key was not
\* inside its window before the call.
C3_TierExclusivity ==
    last.op = "evaluate" =>
        /\ \A c \in {"speed", "temp", "fuel"} :
              Returned(c, "WARNING") = {} \/ Returned(c, "CRITICAL") = {}
        /\ LastSpeed >= thresholds.SPEED_LIMIT_CRITICAL =>
              /\ Returned("speed", "WARNING") = {}
              /\ ~FiredWithin(last.before, <<last.vehicle_id, "SPEEDING", "CRITICAL">>, last.t)
                    => Cardinality(Returned("speed", "CRITICAL")) = 1
        /\ (Has("coolant_temp") /\ Val(last.input.coolant_temp) >= thresholds.ENGINE_TEMP_CRITICAL) =>
              /\ Returned("temp", "WARNING") = {}
              /\ ~FiredWithin(last.before, <<last.vehicle_id, "ENGINE_OVERHEAT", "CRITICAL">>, last.t)
                    => Cardinality(Returned("temp", "CRITICAL")) = 1
        /\ (Has("fuel_level") /\ Val(last.input.fuel_level) <= thresholds.FUEL_LOW_CRITICAL) =>
              /\ Returned("fuel", "WARNING") = {}
              /\ ~FiredWithin(last.before, <<last.vehicle_id, "LOW_FUEL", "CRITICAL">>, last.t)
                    => Cardinality(Returned("fuel", "CRITICAL")) = 1

\* speed = 160 with warning = 120 and critical = 150: one critical speeding
\* alert, no warning speeding alert.
C3_Witness_Speed160 ==
    /\ last.op = "evaluate"
    /\ thresholds.SPEED_LIMIT_WARNING = 120
    /\ thresholds.SPEED_LIMIT_CRITICAL = 150
    /\ last.input.vehicle_speed = Some(160)
    /\ Cardinality(Returned("speed", "CRITICAL")) = 1
    /\ Returned("speed", "WARNING") = {}


\* C4. Check and update of a key are atomic under every interleaving: two
\* requests that fire the same key never both get an alert for it less than
\* cooldown_seconds apart.
C4_OneAlertPerWindowAcrossThreads ==
    \A th1 \in Threads, th2 \in Threads :
        th1 # th2 =>
            \A i \in DOMAIN tloc[th1].alerts, j \in DOMAIN tloc[th2].alerts :
                LET a == tloc[th1].alerts[i]
                    b == tloc[th2].alerts[j]
                IN  KeyOf(a) = KeyOf(b) =>
                        \/ a.created_at - b.created_at >= cooldown_seconds
                        \/ b.created_at - a.created_at >= cooldown_seconds

Min(x, y) == IF x < y THEN x ELSE y

\* C5. A reading with n > 0 codes, when no DTC alert of the vehicle fired
\* within the window, gets one warning DTC_DETECTED alert for each of the
\* first min(n, 5) codes and none for a later code.
C5_OneAlertPerDtc ==
    (/\ last.op = "evaluate"
     /\ Has("dtc_codes")
     /\ ~FiredWithin(last.before, <<last.vehicle_id, "DTC_DETECTED", "WARNING">>, last.t)) =>
        LET codes == Val(last.input.dtc_codes)
        IN  /\ \A n \in 1..Len(codes) :
                  (n <= Min(Len(codes), DTC_LIMIT)) <=>
                      (\E i \in Returned("dtc", "WARNING") :
                          /\ last.alerts[i].alert_type = "DTC_DETECTED"
                          /\ last.alerts[i].message = <<"DTC Detected", codes[n]>>)
            /\ Cardinality(Returned("dtc", "WARNING")) = Min(Len(codes), DTC_LIMIT)

\* C6. With no geofence alert of the vehicle fired within the window before
\* the call, every fence of the list that the position is outside of
\* (distance > radius) and that has alert_on_exit gets a warning alert, every
\* fence the position is inside of (distance <= radius) and that has
\* alert_on_entry gets an info alert, and a fence gets nothing for an unset flag.
C6_AlertPerFence ==
    (/\ last.op = "check_geofence"
     /\ ~FiredWithin(last.before, <<last.vehicle_id, "GEOFENCE_VIOLATION", "WARNING">>, last.t)
     /\ ~FiredWithin(last.before, <<last.vehicle_id, "GEOFENCE_VIOLATION", "INFO">>, last.t)) =>
        \A n \in DOMAIN last.input.geofences :
            LET fence    == last.input.geofences[n]
                distance == IF last.input.lat >= fence.center_latitude
                            THEN last.input.lat - fence.center_latitude
                            ELSE fence.center_latitude - last.input.lat
                exited   == \E i \in Returned("geofence", "WARNING") :
                               last.alerts[i].message = <<"Vehicle exited geofence", fence.name>>
                entered  == \E i \in Returned("geofence", "INFO") :
                               last.alerts[i].message = <<"Vehicle entered geofence", fence.name>>
            IN  /\ exited <=> (distance > fence.radius_meters /\ fence.alert_on_exit)
                /\ entered <=> (distance <= fence.radius_meters /\ fence.alert_on_entry)

\* The calls of one evaluate with the blocks taken in the opposite order.
ReversedCalls(th, vehicle_id, telemetry) ==
    calls_in_order(category_calls(th, vehicle_id, telemetry),
                   <<"dtc", "behavior", "battery", "fuel", "rpm", "temp", "speed">>)

\* Which categories a list of alerts holds, each with its severity.
Fired(alerts) == { <<Category(alerts[i]), alerts[i].severity>> : i \in DOMAIN alerts }

\* C7. The order of the category checks carries no priority: the categories
\* (with their severities) that one evaluate alerts on are the same when the
\* checks are made in the opposite order, so a firing of one category never
\* suppresses a firing of another.
C7_OrderCarriesNoPriority ==
    last.op = "evaluate" =>
        Fired(last.alerts) =
            Fired(CreateAll(last.before, last.t,
                            ReversedCalls(thresholds, last.vehicle_id, last.input)).alerts)


\* The place of a category in the order of the claims.
CategoryRank(c) ==
    CASE c = "speed" -> 1 [] c = "temp" -> 2 [] c = "rpm" -> 3 [] c = "fuel" -> 4
      [] c = "battery" -> 5 [] c = "behavior" -> 6 [] c = "dtc" -> 7 [] c = "geofence" -> 8

\* C8. The alerts one evaluate returns are in the order speed, engine
\* temperature, rpm, fuel, battery, driver behaviour, DTC, geofence: an alert
\* of an earlier category never comes after an alert of a later one.
C8_FixedCategoryOrder ==
    last.op = "evaluate" =>
        \A i \in DOMAIN last.alerts, j \in DOMAIN last.alerts :
            i < j => CategoryRank(Category(last.alerts[i])) <= CategoryRank(Category(last.alerts[j]))

\* One evaluate that returns alerts of six categories, in order.
C8_Witness_SixCategories ==
    /\ last.op = "evaluate"
    /\ [i \in DOMAIN last.alerts |-> Category(last.alerts[i])]
          = <<"speed", "temp", "fuel", "battery", "behavior", "dtc">>

\* C9. A category whose field is absent from the reading yields no alert of
\* that category and changes no cooldown entry of its alert type, whatever
\* the thresholds; a reading with neither vehicle_speed nor gps_speed yields
\* no speeding alert. (The over-rev check has no alert type of its own.)
C9_AbsentFieldNoAlert ==
    last.op = "evaluate" =>
        LET Quiet(c, types) ==
                /\ \A i \in DOMAIN last.alerts : Category(last.alerts[i]) # c
                /\ \A k \in DOMAIN alert_cooldowns :
                      k[2] \in types => (k \in DOMAIN last.before /\ alert_cooldowns[k] = last.before[k])
        IN  /\ (~Has("vehicle_speed") /\ ~Has("gps_speed")) => Quiet("speed", {"SPEEDING"})
            /\ ~Has("coolant_temp") => Quiet("temp", {"ENGINE_OVERHEAT"})
            /\ ~Has("engine_rpm") => Quiet("rpm", {})
            /\ ~Has("fuel_level") => Quiet("fuel", {"LOW_FUEL"})
            /\ ~Has("battery_voltage") => Quiet("battery", {"LOW_BATTERY"})
            /\ ~Has("acceleration_y") => Quiet("behavior", {"HARSH_BRAKING", "HARSH_ACCELERATION"})
            /\ ~Has("dtc_codes") => Quiet("dtc", {"DTC_DETECTED"})

\* When the check of category c runs, key is not inside its window: it was
\* not before the call, and no earlier check of the call has just fired it.
EligibleAtCheck(key, c) ==
    /\ ~FiredWithin(last.before, key, last.t)
    /\ \A i \in DOMAIN last.alerts :
          KeyOf(last.alerts[i]) = key => CategoryRank(Category(last.alerts[i])) >= CategoryRank(c)

\* Some alert of category c and severity s was returned with trigger value x.
ReturnedFor(c, s, x) ==
    \E i \in Returned(c, s) : last.alerts[i].trigger_value = Some(x)

\* C10. With the key eligible: speed, engine temperature and rpm fire when
\* value >= threshold and not below it, fuel fires when level <= threshold
\* and not above it, battery fires when voltage < 11.5 V and not at 11.5 V or
\* above; rpm has the critical tier only and battery the warning tier only.
C10_ThresholdComparisons ==
    last.op = "evaluate" =>
        LET v == last.vehicle_id
            th == thresholds
        IN
        /\ LET x == LastSpeed IN
           /\ (x >= th.SPEED_LIMIT_CRITICAL /\ EligibleAtCheck(<<v, "SPEEDING", "CRITICAL">>, "speed"))
                 => ReturnedFor("speed", "CRITICAL", x)
           /\ (x >= th.SPEED_LIMIT_WARNING /\ x < th.SPEED_LIMIT_CRITICAL
               /\ EligibleAtCheck(<<v, "SPEEDING", "WARNING">>, "speed"))
                 => ReturnedFor("speed", "WARNING", x)
           /\ x < th.SPEED_LIMIT_WARNING
                 => (Returned("speed", "WARNING") \cup Returned("speed", "CRITICAL") = {})
        /\ Has("coolant_temp") =>
           LET x == Val(last.input.coolant_temp) IN
           /\ (x >= th.ENGINE_TEMP_CRITICAL /\ EligibleAtCheck(<<v, "ENGINE_OVERHEAT", "CRITICAL">>, "temp"))
                 => ReturnedFor("temp", "CRITICAL", x)
           /\ (x >= th.ENGINE_TEMP_WARNING /\ x < th.ENGINE_TEMP_CRITICAL
               /\ EligibleAtCheck(<<v, "ENGINE_OVERHEAT", "WARNING">>, "temp"))
                 => ReturnedFor("temp", "WARNING", x)
           /\ x < th.ENGINE_TEMP_WARNING
                 => (Returned("temp", "WARNING") \cup Returned("temp", "CRITICAL") = {})
        /\ Has("engine_rpm") =>
           LET x == Val(last.input.engine_rpm) IN
           /\ (x >= th.RPM_CRITICAL /\ EligibleAtCheck(<<v, "ENGINE_OVERHEAT", "CRITICAL">>, "rpm"))
                 => ReturnedFor("rpm", "CRITICAL", x)
           /\ x < th.RPM_CRITICAL => Returned("rpm", "CRITICAL") = {}
        /\ Returned("rpm", "WARNING") = {}
        /\ Has("fuel_level") =>
           LET x == Val(last.input.fuel_level) IN
           /\ (x <= th.FUEL_LOW_CRITICAL /\ EligibleAtCheck(<<v, "LOW_FUEL", "CRITICAL">>, "fuel"))
                 => ReturnedFor("fuel", "CRITICAL", x)
           /\ (x <= th.FUEL_LOW_WARNING /\ x > th.FUEL_LOW_CRITICAL
               /\ EligibleAtCheck(<<v, "LOW_FUEL", "WARNING">>, "fuel"))
                 => ReturnedFor("fuel", "WARNING", x)
           /\ x > th.FUEL_LOW_WARNING
                 => (Returned("fuel", "WARNING") \cup Returned("fuel", "CRITICAL") = {})
        /\ Has("battery_voltage") =>
           LET x == Val(last.input.battery_voltage) IN
           /\ (x < BATTERY_LOW_VOLTAGE /\ EligibleAtCheck(<<v, "LOW_BATTERY", "WARNING">>, "battery"))
                 => ReturnedFor("battery", "WARNING", x)
           /\ x >= BATTERY_LOW_VOLTAGE => Returned("battery", "WARNING") = {}
        /\ Returned("battery", "CRITICAL") = {}

\* A reading of exactly 11.5 V on a fresh engine: no alert.
C10_Witness_BatteryAtThreshold ==
    /\ last.op = "evaluate"
    /\ last.input.battery_voltage = Some(BATTERY_LOW_VOLTAGE)
    /\ last.before = EmptyStore
    /\ last.alerts = <<>>

\* ---------------------------------------------------------------- threshold configuration

\* A warning/critical pair in the wrong order.
InvertedThresholds(th) ==
    \/ th.SPEED_LIMIT_WARNING > th.SPEED_LIMIT_CRITICAL
    \/ th.ENGINE_TEMP_WARNING > th.ENGINE_TEMP_CRITICAL
    \/ th.FUEL_LOW_WARNING < th.FUEL_LOW_CRITICAL

\* C11: an engine built from an inverted warning/critical pair never accepts
\* a call: with such thresholds no evaluate or check_geofence ever completes.
C11_InvalidConfigRejected ==
    InvertedThresholds(thresholds) => last.op = "init"

\* ---------------------------------------------------------------- the cooldown store over time

\* C12: the cooldown store only grows: a step removes no key and lowers no
\* key's timestamp (the clock never goes back), and the keys of the store are
\* the triples for which an alert has been returned.
C12_StoreOnlyGrows ==
    [][ /\ \A k \in DOMAIN alert_cooldowns :
              /\ k \in DOMAIN alert_cooldowns'
              /\ alert_cooldowns'[k] >= alert_cooldowns[k]
        /\ (pc' = [x \in Threads |-> "idle"] =>
               DOMAIN alert_cooldowns' = { e[1] : e \in DOMAIN emitted' }) ]_vars

\* ---------------------------------------------------------------- DTC analyzer: calls

\* The longest code list analyzed.
MaxCodes == 2

\* Codes as the diagnostics endpoint hands them over (api/telemetry.py line
\* 192: each is a str, "" where a stored entry has no code): table codes of
\* every severity and of the systems get_maintenance_suggestions names,
\* codes outside the table for every branch of _decode_unknown, and codes
\* that need upper() and strip().
KnownCodes ==
    { <<"P","0","1","2","8">>,      \* low, cooling
      <<"P","0","4","4","0">>,      \* low, emissions
      <<"P","0","1","0","1">>,      \* medium, fuel
      <<"P","0","3","0","1">>,      \* high, ignition
      <<"P","0","7","0","0">>,      \* high, transmission
      <<"C","0","0","3","5">>,      \* high, abs
      <<"C","0","0","5","0">>,      \* critical, steering
      <<"B","0","0","0","1">>,      \* critical, airbag
      <<"U","0","1","0","0">> }     \* critical, network

UnknownCodes ==
    { <<"P","1","2","3","4">>,      \* third character mapped
      <<"P","0","9","9","9">>,      \* third character not mapped
      <<"C","1","2","3","4">>,
      <<"B","1","0","0","0">>,
      <<"U","3","0","0","0">>,
      <<"X","9","9","9","9">>,
      <<"P","0">>,
      <<"Z">>,
      <<>>,
      <<" ">>,
      <<"p","0","7","4","0">> }

SpacedCodes ==
    { <<" ","p","0","3","0","1"," ">> }

SampleCodes == KnownCodes \cup UnknownCodes \cup SpacedCodes

RECURSIVE Lists(_, _)
Lists(S, n) ==
    IF n = 0 THEN { <<>> }
    ELSE LET shorter == Lists(S, n - 1)
         IN  shorter \cup { <<x>> \o l : x \in S, l \in { m \in shorter : Len(m) = n - 1 } }

CodeLists == Lists(SampleCodes, MaxCodes)

\* analyzer.analyze(codes), on the analyzer a request has just built
\* (api/telemetry.py line 191).
Analyze(dtc_codes) ==
    /\ dtc_last = DtcIdle
    /\ dtc_last' = [op |-> "analyze", input |-> dtc_codes, result |-> analyze(dtc_codes)]
    /\ UNCHANGED <<engine_vars, can_vars, nmea_vars, obd_vars, db_vars>>

\* analyzer.get_maintenance_suggestions(codes)
GetMaintenanceSuggestions(dtc_codes) ==
    /\ dtc_last = DtcIdle
    /\ dtc_last' = [op |-> "get_maintenance_suggestions", input |-> dtc_codes,
                    result |-> get_maintenance_suggestions(dtc_codes)]
    /\ UNCHANGED <<engine_vars, can_vars, nmea_vars, obd_vars, db_vars>>

\* The caller takes the result; the analyzer and the report are dropped.
DtcReturn ==
    /\ dtc_last # DtcIdle
    /\ dtc_last' = DtcIdle
    /\ UNCHANGED <<engine_vars, can_vars, nmea_vars, obd_vars, db_vars>>

NextDtc ==
    \/ \E dtc_codes \in CodeLists : Analyze(dtc_codes)
    \/ \E dtc_codes \in CodeLists : GetMaintenanceSuggestions(dtc_codes)
    \/ DtcReturn

\* Any number of requests, each on a DTCAnalyzer of its own.
SpecDtc == Init /\ [][NextDtc]_vars

\* ---------------------------------------------------------------- DTC analyzer: properties

Analyzed == dtc_last.op = "analyze"

\* The severities of the per-code entries of a report.
EntrySeverities(report) == { report.codes[i].severity : i \in DOMAIN report.codes }

\* The highest of a set of severities under low < medium < high < critical.
Highest(sevs) ==
    CHOOSE s \in sevs : \A o \in sevs : SEVERITY_PRIORITY[o] <= SEVERITY_PRIORITY[s]

\* C13: for a non-empty list, max_severity is the highest severity among the
\* per-code entries (an unknown code's entry has severity medium), and
\* overall_action is the action of that severity.
C13_MaxSeverityIsHighestEntry ==
    Analyzed /\ dtc_last.input # <<>> =>
        /\ dtc_last.result.max_severity = Highest(EntrySeverities(dtc_last.result))
        /\ dtc_last.result.overall_action = RECOMMENDED_ACTIONS[dtc_last.result.max_severity]

\* C14: safe_to_drive is false exactly when some per-code entry is critical;
\* the empty list gives the no-faults report.
C14_SafeToDrive ==
    Analyzed =>
        /\ dtc_last.result.safe_to_drive = ("critical" \notin EntrySeverities(dtc_last.result))
        /\ dtc_last.result.total_codes = Len(dtc_last.input)
        /\ dtc_last.input = <<>> =>
              /\ dtc_last.result.total_codes = 0
              /\ dtc_last.result.safe_to_drive = TRUE
              /\ dtc_last.result.overall_action = "No faults detected. Vehicle systems normal."
              /\ dtc_last.result.codes = <<>>
              /\ dtc_last.result.affected_systems = {}

\* A report with a critical entry and a high entry.
C14_Witness_CriticalAmongCodes ==
    /\ Analyzed
    /\ {"critical", "high"} \subseteq EntrySeverities(dtc_last.result)
    /\ ~dtc_last.result.safe_to_drive

\* The code a list element is looked up under.
Normalized(raw_code) == strip(upper(raw_code))

\* The system the structure of an unknown code stands for: for a P-code the
\* subsystem of its third character where that character has one, else the
\* system of its first character, else "unknown".
StructuralSystem(code) ==
    LET third == IF Len(code) >= 3 THEN code[3] ELSE "" IN
    IF code = <<>> THEN "unknown"
    ELSE IF code[1] = "P" /\ third \in {"0", "1", "2"} THEN "fuel_and_air"
    ELSE IF code[1] = "P" /\ third = "3" THEN "ignition"
    ELSE IF code[1] = "P" /\ third = "4" THEN "emissions"
    ELSE IF code[1] = "P" /\ third = "5" THEN "speed_idle"
    ELSE IF code[1] = "P" /\ third = "6" THEN "computer"
    ELSE IF code[1] = "P" /\ third \in {"7", "8"} THEN "transmission"
    ELSE IF code[1] = "P" THEN "powertrain"
    ELSE IF code[1] = "C" THEN "chassis"
    ELSE IF code[1] = "B" THEN "body"
    ELSE IF code[1] = "U" THEN "network"
    ELSE "unknown"

\* C15: analyze returns one entry per code; the entry of a code that is not
\* in the table once upper-cased and trimmed has severity medium and the
\* system its structure stands for, and the entry of a code that is in the
\* table once upper-cased and trimmed is the table's.
C15_UnknownCodeDecoded ==
    Analyzed =>
        /\ Len(dtc_last.result.codes) = Len(dtc_last.input)
        /\ \A i \in DOMAIN dtc_last.input :
              LET entry == dtc_last.result.codes[i]
                  code == entry.code
              IN  /\ \A j \in DOMAIN code : \A k \in DOMAIN LowerLetters : code[j] # LowerLetters[k]
                  /\ code # <<>> => code[1] \notin Whitespace /\ code[Len(code)] \notin Whitespace
                  /\ Len(code) <= Len(dtc_last.input[i])
                  /\ IF code \in DOMAIN DTC_DATABASE
                     THEN /\ entry.severity = DTC_DATABASE[code].severity
                          /\ entry.system = DTC_DATABASE[code].system
                     ELSE /\ entry.severity = "medium"
                          /\ entry.system = StructuralSystem(code)
        /\ dtc_last.input = << <<" ","p","0","3","0","1"," ">> >> =>
              dtc_last.result.codes[1].code = <<"P","0","3","0","1">>

\* An empty code, a two-character code, a P-code with a mapped third
\* character and a code with an unknown first letter have been analyzed.
C15_Witness_OddCodes ==
    /\ Analyzed
    /\ Len(dtc_last.input) = 2
    /\ dtc_last.input[1] \in { <<>>, <<"P","0">> }
    /\ dtc_last.input[2] \in { <<"p","0","7","4","0">>, <<"X","9","9","9","9">> }
    /\ dtc_last.result.codes[2].system \in { "transmission", "unknown" }

\* C16: get_maintenance_suggestions returns one suggestion per input code;
\* a suggestion for an abs or steering code has priority critical, every
\* other suggestion has the priority of its code's severity.
C16_OneSuggestionPerCode ==
    dtc_last.op = "get_maintenance_suggestions" =>
        LET entries == analyze(dtc_last.input).codes IN
        /\ Len(dtc_last.result) = Len(dtc_last.input)
        /\ \A i \in DOMAIN dtc_last.result :
              dtc_last.result[i].priority =
                  IF entries[i].system \in {"abs", "steering"} THEN "critical"
                  ELSE entries[i].severity

\* ---------------------------------------------------------------- CAN decoder: calls

\* The longest frame decoded, in bytes (CAN 2.0 carries up to 8).
MaxDataLen == 8

\* The cataloged arbitration IDs and one the catalog does not hold.
ArbitrationIds == DOMAIN STANDARD_CAN_SIGNALS \cup { 2047 }

\* Byte patterns a frame repeats: all zero, all one, alternating, one bit
\* per byte.
BytePatterns ==
    { << 0 >>, << 255 >>, << 255, 0 >>, << 165, 90 >>, << 1, 2, 4, 8, 16, 32, 64, 128 >> }

\* The frame of n bytes that repeats pattern p.
PatternFrame(n, p) == [ i \in 1..n |-> p[((i - 1) % Len(p)) + 1] ]

\* Frames of every length from 0 to MaxDataLen bytes in every pattern, and
\* frames with other bytes.
MixedFrames ==
    { << 52, 18 >>,
      << 0, 0, 0, 1 >>,
      << 0, 0, 0, 254 >>,
      << 120, 86, 52, 18, 240, 222, 188, 154 >> }

Frames == { PatternFrame(n, p) : n \in 0..MaxDataLen, p \in BytePatterns } \cup MixedFrames

\* The input whose results the history follows.
WatchedInput == << 208, << 255, 0, 255 >> >>

\* CANDecoder.connect: the bus opens, or the import or the bus fails and
\* the decoder falls back to its simulator.
Connect(ok) ==
    /\ can_last = CanIdle
    /\ decoder' = IF ok THEN [decoder EXCEPT !.bus = Some("bus"), !.is_connected = TRUE]
                        ELSE [decoder EXCEPT !.use_simulator = TRUE]
    /\ UNCHANGED <<can_last, can_seen, engine_vars, dtc_vars, nmea_vars, obd_vars, db_vars>>

\* CANDecoder.disconnect
Disconnect ==
    /\ can_last = CanIdle
    /\ decoder.bus # None
    /\ decoder' = [decoder EXCEPT !.is_connected = FALSE]
    /\ UNCHANGED <<can_last, can_seen, engine_vars, dtc_vars, nmea_vars, obd_vars, db_vars>>

\* The history after a call with this input and result: the first result of
\* the watched input, whether another input was decoded since, and whether
\* the watched input was decoded again after that.
Seen(seen, input, result) ==
    IF input = WatchedInput
    THEN IF input \notin DOMAIN seen
         THEN (input :> [result |-> result, between |-> FALSE, again |-> FALSE]) @@ seen
         ELSE [seen EXCEPT ![input].again = seen[input].between]
    ELSE IF WatchedInput \in DOMAIN seen
         THEN [seen EXCEPT ![WatchedInput].between = TRUE]
         ELSE seen

\* decoder.decode_frame(arbitration_id, data)
DecodeFrame(arbitration_id, data) ==
    /\ can_last = CanIdle
    /\ decoder' = decoder
    /\ LET result == decode_frame(decoder, arbitration_id, data) IN
       /\ can_last' = [op |-> "decode_frame", arbitration_id |-> arbitration_id, data |-> data,
                       result |-> result, before |-> decoder, after |-> decoder']
       /\ can_seen' = Seen(can_seen, <<arbitration_id, data>>, result)
    /\ UNCHANGED <<engine_vars, dtc_vars, nmea_vars, obd_vars, db_vars>>

\* The caller takes the result.
FrameReturn ==
    /\ can_last # CanIdle
    /\ can_last' = CanIdle
    /\ UNCHANGED <<decoder, can_seen, engine_vars, dtc_vars, nmea_vars, obd_vars, db_vars>>

NextCan ==
    \/ \E ok \in BOOLEAN : Connect(ok)
    \/ Disconnect
    \/ \E arbitration_id \in ArbitrationIds, data \in Frames : DecodeFrame(arbitration_id, data)
    \/ FrameReturn

\* One decoder and its one caller.
SpecCan == Init /\ [][NextCan]_vars

\* ---------------------------------------------------------------- CAN decoder: properties

CanDecoded == can_last.op = "decode_frame"

\* The signal definitions of the frame just decoded.
LastSignals ==
    IF can_last.arbitration_id \in DOMAIN STANDARD_CAN_SIGNALS
    THEN LET signals == STANDARD_CAN_SIGNALS[can_last.arbitration_id].signals
         IN  { signals[i] : i \in DOMAIN signals }
    ELSE {}

Fits(signal_def, data) == signal_def.start_bit + signal_def.length <= 8 * Len(data)

\* C17: in the result of decode_frame for a cataloged ID, a signal is present
\* exactly when its bit range fits the frame: start_bit + length <= 8 * len(data).
C17_OversizedSignalOmitted ==
    CanDecoded =>
        \A signal_def \in LastSignals :
            (signal_def.signal_name \in DOMAIN can_last.result) <=> Fits(signal_def, can_last.data)

\* Bit n of a frame, counted from the least significant bit of byte 0.
Bit(data, n) ==
    IF n \div 8 + 1 \in DOMAIN data THEN (data[n \div 8 + 1] \div (2 ^ (n % 8))) % 2 ELSE 0

\* The value of the bits start .. start + length - 1 of a frame.
RECURSIVE BitField(_, _, _)
BitField(data, start, length) ==
    IF length = 0 THEN 0 ELSE Bit(data, start) + 2 * BitField(data, start + 1, length - 1)

\* C18: each decoded signal's raw value is the value of the bits start_bit ..
\* start_bit + length - 1 of the little-endian frame, so 0 <= raw < 2^length,
\* and its value is raw * factor + offset; a first byte 0xFF gives an 8-bit
\* signal at bit 0 the raw value 255; an ID outside the catalog gives {}.
C18_RawIsBitField ==
    CanDecoded =>
        IF can_last.arbitration_id \in DOMAIN STANDARD_CAN_SIGNALS
        THEN /\ \A signal_def \in LastSignals :
                  /\ Fits(signal_def, can_last.data) => signal_def.signal_name \in DOMAIN can_last.result
                  /\ signal_def.signal_name \in DOMAIN can_last.result =>
                        LET entry == can_last.result[signal_def.signal_name] IN
                        /\ entry.raw = BitField(can_last.data, signal_def.start_bit, signal_def.length)
                        /\ 0 <= entry.raw /\ entry.raw < 2 ^ signal_def.length
                        /\ entry.value = entry.raw * signal_def.factor + 1000 * signal_def.offset
             /\ (can_last.arbitration_id = 193 /\ Len(can_last.data) >= 2
                   /\ can_last.data[1] = 255 /\ can_last.data[2] = 0) =>
                  can_last.result["coolant_temp"].raw = 255
        ELSE can_last.result = EmptyDict

\* A two-byte frame 0x34 0x12 decoded as Engine_Data_1: engine_rpm is 0x1234.
C18_Witness_TwoBytes ==
    /\ CanDecoded
    /\ can_last.arbitration_id = 192
    /\ can_last.data = << 52, 18 >>
    /\ can_last.result["engine_rpm"].raw = 4660

\* C19: a decode_frame call leaves the decoder as it found it, and a call
\* with the watched input returns what the first call with it returned,
\* whatever was decoded and however the connection changed in between.
C19_DecodeFramePure ==
    CanDecoded =>
        /\ can_last.after = can_last.before
        /\ <<can_last.arbitration_id, can_last.data>> \in DOMAIN can_seen =>
              can_last.result = can_seen[<<can_last.arbitration_id, can_last.data>>].result

\* The watched input decoded again after another frame, on a decoder that
\* has meanwhile fallen back to its simulator.
C19_Witness_DecodedAgain ==
    /\ CanDecoded
    /\ <<can_last.arbitration_id, can_last.data>> = WatchedInput
    /\ WatchedInput \in DOMAIN can_seen
    /\ can_seen[WatchedInput].again
    /\ can_last.before.use_simulator

\* ---------------------------------------------------------------- NMEA: calls

\* The longest list of sentences parsed (_read_nmea reads up to 20 lines).
MaxSentences == 3

\* A GGA sentence with a full position: $GPGGA,123519,4807.038,N,01131.000,E,1,08,0.9,545.4,M
GGA_Full ==
    << "$", "G", "P", "G", "G", "A", ",", "1", "2", "3", "5", "1", "9", ",", "4", "8", "0", "7", ".", "0", "3", "8", ",", "N", ",", "0", "1", "1", "3", "1", ".", "0", "0", "0", ",", "E", ",", "1", ",", "0", "8", ",", "0", ".", "9", ",", "5", "4", "5", ".", "4", ",", "M" >>

\* A GGA sentence whose latitude fields are empty: $GPGGA,123519,,,01131.000,E,1,08,0.9,545.4,M
GGA_NoLatitude ==
    << "$", "G", "P", "G", "G", "A", ",", "1", "2", "3", "5", "1", "9", ",", ",", ",", "0", "1", "1", "3", "1", ".", "0", "0", "0", ",", "E", ",", "1", ",", "0", "8", ",", "0", ".", "9", ",", "5", "4", "5", ".", "4", ",", "M" >>

\* A GGA sentence of a receiver without a fix: $GPGGA,123519,,,,,0,00,,,M
GGA_NoFix ==
    << "$", "G", "P", "G", "G", "A", ",", "1", "2", "3", "5", "1", "9", ",", ",", ",", ",", ",", "0", ",", "0", "0", ",", ",", ",", "M" >>

\* A GGA sentence cut short: $GPGGA,123519,4807.038,N
GGA_Short ==
    << "$", "G", "P", "G", "G", "A", ",", "1", "2", "3", "5", "1", "9", ",", "4", "8", "0", "7", ".", "0", "3", "8", ",", "N" >>

\* A GGA sentence whose altitude is not a number: $GPGGA,123519,4807.038,N,01131.000,E,1,08,0.9,x,M
GGA_BadAltitude ==
    << "$", "G", "P", "G", "G", "A", ",", "1", "2", "3", "5", "1", "9", ",", "4", "8", "0", "7", ".", "0", "3", "8", ",", "N", ",", "0", "1", "1", "3", "1", ".", "0", "0", "0", ",", "E", ",", "1", ",", "0", "8", ",", "0", ".", "9", ",", "x", ",", "M" >>

\* An RMC sentence with position, speed and course: $GPRMC,123519,A,4916.450,N,12311.120,W,022.4,084.4
RMC_Full ==
    << "$", "G", "P", "R", "M", "C", ",", "1", "2", "3", "5", "1", "9", ",", "A", ",", "4", "9", "1", "6", ".", "4", "5", "0", ",", "N", ",", "1", "2", "3", "1", "1", ".", "1", "2", "0", ",", "W", ",", "0", "2", "2", ".", "4", ",", "0", "8", "4", ".", "4" >>

\* An RMC sentence that ends after the speed: $GPRMC,123519,A,4916.450,N,12311.120,W,022.4
RMC_NoCourse ==
    << "$", "G", "P", "R", "M", "C", ",", "1", "2", "3", "5", "1", "9", ",", "A", ",", "4", "9", "1", "6", ".", "4", "5", "0", ",", "N", ",", "1", "2", "3", "1", "1", ".", "1", "2", "0", ",", "W", ",", "0", "2", "2", ".", "4" >>

\* An RMC sentence whose speed is not a number: $GPRMC,123519,A,4916.450,N,12311.120,W,abc,084.4
RMC_BadSpeed ==
    << "$", "G", "P", "R", "M", "C", ",", "1", "2", "3", "5", "1", "9", ",", "A", ",", "4", "9", "1", "6", ".", "4", "5", "0", ",", "N", ",", "1", "2", "3", "1", "1", ".", "1", "2", "0", ",", "W", ",", "a", "b", "c", ",", "0", "8", "4", ".", "4" >>

\* An RMC sentence of a receiver without a fix: $GPRMC,123519,V,,,,,,
RMC_NoFix ==
    << "$", "G", "P", "R", "M", "C", ",", "1", "2", "3", "5", "1", "9", ",", "V", ",", ",", ",", ",", ",", "," >>

\* A sentence of another type: $GPVTG,084.4,T,,M,022.4,N,041.5,K
VTG ==
    << "$", "G", "P", "V", "T", "G", ",", "0", "8", "4", ".", "4", ",", "T", ",", ",", "M", ",", "0", "2", "2", ".", "4", ",", "N", ",", "0", "4", "1", ".", "5", ",", "K" >>

SampleSentences ==
    { GGA_Full, GGA_NoLatitude, GGA_NoFix, GGA_Short, GGA_BadAltitude,
      RMC_Full, RMC_NoCourse, RMC_BadSpeed, RMC_NoFix, VTG }

SentenceLists == Lists(SampleSentences, MaxSentences)

\* _parse_nmea(sentences) is entered: the fix is all unknown.
ParseBegin(sentences) ==
    /\ nmea.pc = "idle"
    /\ nmea' = [pc |-> "loop", sentences |-> sentences, data |-> NewFix(now),
                before |-> NewFix(now), sentence |-> <<>>, index |-> 0,
                origin |-> [latitude |-> 0, longitude |-> 0]]
    /\ UNCHANGED <<engine_vars, dtc_vars, can_vars, obd_vars, db_vars>>

\* The sentence that last gave field f a value, after a turn of the loop
\* that assigned the fields of r.assigned: 0 where the field is unknown.
OriginAfter(f, r, index) ==
    IF f \in r.assigned
    THEN IF r.data[f] # None THEN index ELSE 0
    ELSE nmea.origin[f]

\* One turn of the loop: the next sentence is read.
ParseSentence ==
    /\ nmea.pc = "loop"
    /\ nmea.sentences # <<>>
    /\ LET r == parse_sentence(nmea.data, Head(nmea.sentences)) IN
       nmea' = [pc |-> "loop", sentences |-> Tail(nmea.sentences), data |-> r.data,
                before |-> nmea.data, sentence |-> Head(nmea.sentences),
                index |-> nmea.index + 1,
                origin |-> [latitude |-> OriginAfter("latitude", r, nmea.index + 1),
                            longitude |-> OriginAfter("longitude", r, nmea.index + 1)]]
    /\ UNCHANGED <<engine_vars, dtc_vars, can_vars, obd_vars, db_vars>>

\* The loop is over: _parse_nmea returns data.
ParseReturn ==
    /\ nmea.pc = "loop"
    /\ nmea.sentences = <<>>
    /\ nmea' = NmeaIdle
    /\ UNCHANGED <<engine_vars, dtc_vars, can_vars, obd_vars, db_vars>>

\* ---------------------------------------------------------------- NMEA: the reader

\* str.startswith
StartsWith(s, prefix) == Len(s) >= Len(prefix) /\ SubSeq(s, 1, Len(prefix)) = prefix

\* GPSTracker._read_nmea on the lines the receiver sends: each line is
\* stripped and kept where it starts with $GP or $GN.
RECURSIVE read_nmea(_)
read_nmea(lines) ==
    IF lines = <<>> THEN <<>>
    ELSE LET line == strip(Head(lines))
         IN  (IF StartsWith(line, <<"$", "G", "P">>) \/ StartsWith(line, <<"$", "G", "N">>)
              THEN << line >> ELSE <<>>) \o read_nmea(Tail(lines))

\* A GGA sentence of another talker: $GLGGA,123519,4807.038,N,01131.000,E,1,08,0.9,545.4,M
GL_GGA ==
    << "$", "G", "L", "G", "G", "A", ",", "1", "2", "3", "5", "1", "9", ",", "4", "8", "0", "7", ".", "0", "3", "8", ",", "N", ",", "0", "1", "1", "3", "1", ".", "0", "0", "0", ",", "E", ",", "1", ",", "0", "8", ",", "0", ".", "9", ",", "5", "4", "5", ".", "4", ",", "M" >>

\* An RMC sentence of the combined talker: $GNRMC,123519,A,4916.450,N,12311.120,W,022.4,084.4
GN_RMC ==
    << "$", "G", "N", "R", "M", "C", ",", "1", "2", "3", "5", "1", "9", ",", "A", ",", "4", "9", "1", "6", ".", "4", "5", "0", ",", "N", ",", "1", "2", "3", "1", "1", ".", "1", "2", "0", ",", "W", ",", "0", "2", "2", ".", "4", ",", "0", "8", "4", ".", "4" >>

\* A line that begins with $GP and is no GGA sentence: $GPXGGA,123519,4807.038,N,01131.000,E,1,08,0.9,545.4,M
GP_LongAddress ==
    << "$", "G", "P", "X", "G", "G", "A", ",", "1", "2", "3", "5", "1", "9", ",", "4", "8", "0", "7", ".", "0", "3", "8", ",", "N", ",", "0", "1", "1", "3", "1", ".", "0", "0", "0", ",", "E", ",", "1", ",", "0", "8", ",", "0", ".", "9", ",", "5", "4", "5", ".", "4", ",", "M" >>

\* Free text: GPS module v2, ready
FreeText ==
    << "G", "P", "S", " ", "m", "o", "d", "u", "l", "e", " ", "v", "2", ",", " ", "r", "e", "a", "d", "y" >>

\* A GGA sentence as the serial line carries it, with its line end.
GGA_CrLf == GGA_Full \o << "\r", "\n" >>

SampleLines == { GL_GGA, GN_RMC, GP_LongAddress, FreeText, GGA_CrLf, VTG }

LineLists == Lists(SampleLines, MaxSentences)

\* GPSTracker.get_position on a connected receiver: the lines are read and
\* filtered, and the parse is entered with what is left.
GetPosition(lines) == ParseBegin(read_nmea(lines))

NextNmea ==
    \/ \E sentences \in SentenceLists : ParseBegin(sentences)
    \/ \E lines \in LineLists : GetPosition(lines)
    \/ ParseSentence
    \/ ParseReturn

\* One tracker reading its receiver again and again.
SpecNmea == Init /\ [][NextNmea]_vars

\* ---------------------------------------------------------------- NMEA: properties

\* A sentence has just been read.
SentenceRead == nmea.pc = "loop" /\ nmea.index > 0

\* The fields of the sentence just read.
LastParts == split(nmea.sentence)

\* The sentence just read is an RMC sentence of at least eight fields.
LastIsRmc ==
    /\ SentenceRead
    /\ contains(LastParts[1], <<"R", "M", "C">>)
    /\ ~contains(LastParts[1], <<"G", "G", "A">>)
    /\ Len(LastParts) >= 8

\* C20: once latitude and longitude are populated an RMC sentence changes
\* neither; an RMC sentence changes a position field only where that field
\* was unknown; and an RMC sentence whose speed and course are numbers
\* supplies speed and heading.
C20_GgaPositionPrecedence ==
    LastIsRmc =>
        /\ (nmea.before.latitude # None /\ nmea.before.longitude # None) =>
              /\ nmea.data.latitude = nmea.before.latitude
              /\ nmea.data.longitude = nmea.before.longitude
        /\ \A f \in {"latitude", "longitude"} :
              nmea.before[f] # None => nmea.data[f] = nmea.before[f]
        /\ (Len(LastParts) >= 9 /\ parse_float(LastParts[8]) # None
              /\ parse_float(LastParts[9]) # None) =>
              /\ nmea.data.speed # None
              /\ nmea.data.heading # None

\* The sentence just read names the type in its first field.
LastNames(type) == contains(LastParts[1], type)

\* A field of the sentence just read, with Python's index, is not empty and
\* is not a number.
NotAFloat(i) == LastParts[i + 1] # <<>> /\ parse_float(LastParts[i + 1]) = None

NotAnInt(i) == LastParts[i + 1] # <<>> /\ parse_int(LastParts[i + 1]) = None

\* The sentence just read is a GGA or RMC sentence that is too short or has
\* a field that fails to parse.
LastIsBad ==
    /\ SentenceRead
    /\ \/ /\ LastNames(<<"G", "G", "A">>)
          /\ \/ Len(LastParts) < 10
             \/ NotAFloat(9)
             \/ NotAnInt(7)
       \/ /\ ~LastNames(<<"G", "G", "A">>)
          /\ LastNames(<<"R", "M", "C">>)
          /\ \/ Len(LastParts) < 9
             \/ NotAFloat(7)
             \/ NotAFloat(8)

\* C21: a sentence that is too short or has a field that fails to parse is
\* skipped as a whole: the fix after it is the fix before it.
C21_BadSentenceSkippedWhole ==
    LastIsBad => nmea.data = nmea.before

\* The sentence type of an address field: the three letters after "$" and
\* the two letters of the talker; none where the field is no such address.
SentenceType(address) ==
    IF Len(address) = 6 /\ address[1] = "$" THEN SubSeq(address, 4, 6) ELSE <<>>

\* C22: a sentence changes the fix only if it begins with $GP or $GN and its
\* sentence type is GGA or RMC; every other line leaves the fix as it was.
C22_OnlyGgaRmcChangeFix ==
    (SentenceRead /\ nmea.data # nmea.before) =>
        /\ \/ StartsWith(nmea.sentence, <<"$", "G", "P">>)
           \/ StartsWith(nmea.sentence, <<"$", "G", "N">>)
        /\ SentenceType(LastParts[1]) \in { <<"G", "G", "A">>, <<"R", "M", "C">> }

\* ---------------------------------------------------------------- OBD-II: calls

MaxRawBytes == 3

SampleBytes == {0, 26, 44, 255}

\* Raw responses: every byte string of the declared width, and strings of
\* every other length up to MaxRawBytes over a few byte values.
RawData(name) ==
    [1..OBD_PIDS[name].bytes -> 0..255]
        \cup UNION { [1..n -> SampleBytes] : n \in 0..MaxRawBytes }

\* The formula of a PID applied to a raw response.
CallFormula(name, data) ==
    /\ obd = ObdIdle
    /\ obd' = [name |-> name, data |-> data, result |-> call_formula(name, data)]
    /\ UNCHANGED <<engine_vars, dtc_vars, can_vars, nmea_vars, db_vars>>

\* The caller takes the value or the error.
FormulaReturn ==
    /\ obd # ObdIdle
    /\ obd' = ObdIdle
    /\ UNCHANGED <<engine_vars, dtc_vars, can_vars, nmea_vars, db_vars>>

NextObd ==
    \/ /\ obd = ObdIdle
       /\ \E name \in PidNames : \E data \in RawData(name) : CallFormula(name, data)
    \/ FormulaReturn

SpecObd == Init /\ [][NextObd]_vars

\* ---------------------------------------------------------------- OBD-II: properties

Called == obd # ObdIdle

Value == Val(obd.result.value)

\* C24: with A, B the raw bytes, ENGINE_RPM gives 4 * rpm = 256*A + B within
\* 0..16383.75 (1675 for A = 26, B = 44), COOLANT_TEMP gives A - 40 within
\* -40..215, and BATTERY_VOLTAGE gives 1000 * volts = 256*A + B.
C24_StandardFormulas ==
    (Called /\ obd.result.raised = <<>>) =>
        LET A == obd.data[1]
            B == obd.data[2]
        IN  /\ obd.name = "ENGINE_RPM" =>
                  /\ 4 * Value.num = (256 * A + B) * Value.den
                  /\ 0 <= Value.num
                  /\ 4 * Value.num <= 65535 * Value.den
                  /\ (A = 26 /\ B = 44) => Value.num = 1675 * Value.den
            /\ obd.name = "COOLANT_TEMP" =>
                  /\ Value.num = (A - 40) * Value.den
                  /\ -40 * Value.den <= Value.num
                  /\ Value.num <= 215 * Value.den
            /\ obd.name = "BATTERY_VOLTAGE" =>
                  1000 * Value.num = (256 * A + B) * Value.den

C24_Witness_Rpm1675 ==
    /\ Called
    /\ obd.name = "ENGINE_RPM"
    /\ obd.data = <<26, 44>>
    /\ obd.result.value = Some(Ratio(6700, 4))

\* ---------------------------------------------------------------- the tracking loop: properties

SpeedingKey == <<1, "SPEEDING", "CRITICAL">>

\* The last reading of the loop was suppressed for the key, and the window
\* of the firing that suppresses it ends before the clock of the model stops.
SuppressedInsideHorizon ==
    /\ last.op = "evaluate"
    /\ last.alerts = <<>>
    /\ SpeedingKey \in DOMAIN alert_cooldowns
    /\ alert_cooldowns[SpeedingKey] + cooldown_seconds + poll_interval <= MaxTime

\* The last reading of the loop emitted the alert of the key.
AlertedAgain ==
    /\ last.op = "evaluate"
    /\ \E i \in 1..Len(last.alerts) :
          <<last.alerts[i].vehicle_id, last.alerts[i].alert_type,
            last.alerts[i].severity>> = SpeedingKey

\* C25: a vehicle that is polled while time advances and is above the
\* critical speed limit at every reading is alerted, and after every
\* suppressed reading it is alerted again: the key is not suppressed for
\* ever.  (The clock of the model stops at MaxTime, so the property is
\* stated for the windows that end before it.)
C25_AlertedAgainAfterWindow ==
    /\ <>AlertedAgain
    /\ SuppressedInsideHorizon ~> AlertedAgain

\* A suppressed reading left the timestamp, and a later one fired after the
\* window.
C25_Witness_SecondAlert ==
    /\ AlertedAgain
    /\ SpeedingKey \in DOMAIN last.before
    /\ last.t - last.before[SpeedingKey] >= cooldown_seconds

\* ---------------------------------------------------------------- tiers: properties

TieredCategories == {"speed", "temp", "fuel"}

TierType(c) ==
    CASE c = "speed" -> "SPEEDING" [] c = "temp" -> "ENGINE_OVERHEAT" [] c = "fuel" -> "LOW_FUEL"

\* The last reading meets the critical threshold of category c.
MeetsCritical(c) ==
    CASE c = "speed" -> LastSpeed >= thresholds.SPEED_LIMIT_CRITICAL
      [] c = "temp"  -> Has("coolant_temp")
                        /\ Val(last.input.coolant_temp) >= thresholds.ENGINE_TEMP_CRITICAL
      [] c = "fuel"  -> Has("fuel_level")
                        /\ Val(last.input.fuel_level) <= thresholds.FUEL_LOW_CRITICAL

TierKey(c, s) == <<last.vehicle_id, TierType(c), s>>

\* The last call left the entry of the key as it was.
EntryUnchanged(key) ==
    /\ key \in DOMAIN alert_cooldowns <=> key \in DOMAIN last.before
    /\ key \in DOMAIN last.before => alert_cooldowns[key] = last.before[key]

\* C26: when the reading meets the critical threshold of a tiered category
\* whose critical key fired less than one window ago, evaluate returns no
\* alert of that category, the warning included, and leaves the timestamps
\* of both keys as they were.
C26_NoFallbackToLowerTier ==
    last.op = "evaluate" =>
        \A c \in TieredCategories :
            (MeetsCritical(c) /\ FiredWithin(last.before, TierKey(c, "CRITICAL"), last.t)) =>
                /\ \A i \in DOMAIN last.alerts : last.alerts[i].alert_type # TierType(c)
                /\ EntryUnchanged(TierKey(c, "WARNING"))
                /\ EntryUnchanged(TierKey(c, "CRITICAL"))

\* The critical key suppressed while the warning key, fired a window or more
\* ago, is eligible.
C26_Witness_WarningEligible ==
    /\ last.op = "evaluate"
    /\ MeetsCritical("fuel")
    /\ FiredWithin(last.before, TierKey("fuel", "CRITICAL"), last.t)
    /\ TierKey("fuel", "WARNING") \in DOMAIN last.before
    /\ ~FiredWithin(last.before, TierKey("fuel", "WARNING"), last.t)
    /\ last.alerts = <<>>

\* ---------------------------------------------------------------- two vehicles: properties

\* The entries of store cd whose key carries the vehicle.
OfVehicle(cd, vehicle_id) ==
    [k \in { x \in DOMAIN cd : x[1] = vehicle_id } |-> cd[k]]

\* What the last call returns on store cd.
LastCallOn(cd) ==
    IF last.op = "evaluate"
    THEN evaluate(thresholds, cd, last.t, last.vehicle_id, last.input).alerts
    ELSE check_geofence(cd, last.t, last.vehicle_id, last.input.lat, last.input.lon,
                        last.input.geofences).alerts

\* C27: an evaluate or a geofence check for vehicle v changes only entries
\* whose key carries v, and of those only the keys of the alerts it returned;
\* and what it returns does not depend on the entries of other vehicles.
C27_VehicleIsolation ==
    last.op \in {"evaluate", "check_geofence"} =>
        /\ \A k \in DOMAIN alert_cooldowns \cup DOMAIN last.before :
              ~EntryUnchanged(k) =>
                  /\ k[1] = last.vehicle_id
                  /\ \E i \in DOMAIN last.alerts : KeyOf(last.alerts[i]) = k
        /\ last.alerts = LastCallOn(OfVehicle(last.before, last.vehicle_id))

\* Vehicle 2 is alerted while the same key of vehicle 1 is inside its window.
C27_Witness_OtherVehicleInWindow ==
    /\ last.op \in {"evaluate", "check_geofence"}
    /\ last.vehicle_id = 2
    /\ \E i \in DOMAIN last.alerts :
          FiredWithin(last.before, <<1, last.alerts[i].alert_type, last.alerts[i].severity>>,
                      last.t)

\* ---------------------------------------------------------------- persistence: properties

\* C28: every firing recorded in the cooldown store is an alert that was
\* stored: a key inside its cooldown window has the row of that firing in
\* the alerts table, also after a commit that failed.
C28_FiringsArePersisted ==
    \A k \in DOMAIN alert_cooldowns :
        FiredWithin(alert_cooldowns, k, now) => <<k, alert_cooldowns[k]>> \in alerts_table

\* ---------------------------------------------------------------- speed source: properties

\* The speed of the last reading when vehicle_speed is taken whenever it is
\* present and gps_speed only when it is absent.
PresentSpeed ==
    IF Has("vehicle_speed") THEN Val(last.input.vehicle_speed)
    ELSE IF Has("gps_speed") THEN Val(last.input.gps_speed)
    ELSE 0

SpeedAlerts == Returned("speed", "WARNING") \cup Returned("speed", "CRITICAL")

\* C29: the speeding check is made on vehicle_speed whenever the reading has
\* it, the value 0 included, and on gps_speed only when vehicle_speed is
\* absent; a reading with vehicle_speed = 0 gets no speeding alert under the
\* default thresholds, whatever its gps_speed.
C29_VehicleSpeedPreferred ==
    last.op = "evaluate" =>
        /\ \A i \in SpeedAlerts : last.alerts[i].trigger_value = Some(PresentSpeed)
        /\ (Has("vehicle_speed") /\ Val(last.input.vehicle_speed) = 0) => SpeedAlerts = {}

\* ---------------------------------------------------------------- NMEA: the position

PositionFields == {"latitude", "longitude"}

\* C30: during a parse no sentence resets a known latitude or longitude to
\* unknown, and after every sentence latitude and longitude are both
\* unknown or both taken from the same sentence.
C30_PositionKeptAndPaired ==
    SentenceRead =>
        /\ \A f \in PositionFields : nmea.before[f] # None => nmea.data[f] # None
        /\ nmea.data.latitude = None <=> nmea.data.longitude = None
        /\ nmea.data.latitude # None => nmea.origin.latitude = nmea.origin.longitude

====
